---- MODULE Spec2Model ----
(***************************************************************************)
(* A model of the media verification and re-acquisition pipeline:          *)
(*   - media_quality_checker.py: one run of MediaQualityChecker            *)
(*     (process_sonarr, then process_radarr) with its good/skipped caches, *)
(*     the operator prompts and the mutating API requests it issues;       *)
(*   - sonarr_ui_helper.py: probe_file and its size-keyed probe cache.     *)
(* The library APIs, the inspection tool, the file system and the operator *)
(* are the environment: their answers are chosen nondeterministically.     *)
(***************************************************************************)
EXTENDS Integers, Sequences, FiniteSets, TLC

(* ------------------------------ bounds --------------------------------- *)
\* files the two libraries list in one run; each has a path of its own, and
\* the paths are numbered in the order in which the run meets them
NumPaths == 2
\* distinct series / movie identifiers
NumEntities == 1
\* episodes of one series
NumEpisodes == 2
\* releases one GET release returns at most
MaxReleases == 2
\* paths the cache files hold when the run starts
MaxCached == 1

(* --------------------------- value domains ----------------------------- *)
\* ep_file.get('path') / movie_file.get('path') absent or empty
NoPath == 0
\* ep_file.get('id') absent or 0; also an episode without a file
NoId == 0
\* release.get('indexerId') is None
None == -1

Paths == 1..NumPaths
EpisodeIds == 1..NumEpisodes
\* the library's identifier of the file record stored at path p
FileId(p) == NumPaths + p

\* str.lower() on the strings and characters the model uses
Lower(s) ==
    CASE s = "ENG" -> "eng"
      [] s = "EN" -> "en"
      [] s = "Eng" -> "eng"
      [] s = "A" -> "a"
      [] s = "B" -> "b"
      [] OTHER -> s

\* MediaQualityChecker.__init__: self.english_codes from the configured list
\* (an empty or absent list gives the default), lowercased
init_english_codes(configured) ==
    {Lower(c) : c \in IF configured = {} THEN {"eng", "en", "english"} ELSE configured}

\* self.english_codes when the configuration names no codes
english_codes == init_english_codes({})

\* what english_language_codes can be in config.toml
CodeLists == { {}, {"eng"}, {"ENG", "en"}, {"eng", ""}, {"spa"} }

(* ----------------------- the inspection tool --------------------------- *)
Stream(t, l) == [codec_type |-> t, language |-> l]

\* what one run of the tool on a file can give: the file is missing, the
\* tool exits non-zero, times out, prints malformed output, or prints streams
ProbeOutcomes ==
    {[kind |-> k, streams |-> <<>>] :
        k \in {"missing", "nonzero", "timeout", "malformed"}}
    \cup
    {[kind |-> "ok", streams |-> s] : s \in
        { <<>>,
          <<Stream("video", "")>>,
          <<Stream("audio", "eng")>>,
          <<Stream("audio", "ENG"), Stream("subtitle", "en")>>,
          <<Stream("subtitle", "Eng")>>,
          <<Stream("audio", "spa"), Stream("subtitle", "")>>,
          <<Stream("video", "eng"), Stream("audio", ""), Stream("subtitle", "spa")>> }}
    \cup
    \* the output parses, but an entry after these raises while it is read
    {[kind |-> "malformed", streams |-> <<Stream("audio", "eng"), Stream("subtitle", "en")>>]}

\* a variant that takes a failed probe for a file with every stream wanted
check_file_streams_optimistic(codes, o) ==
    IF o.kind # "ok"
    THEN <<TRUE, TRUE>>
    ELSE << \E i \in 1..Len(o.streams) :
                /\ o.streams[i].codec_type = "audio"
                /\ Lower(o.streams[i].language) \in codes,
            \E i \in 1..Len(o.streams) :
                /\ o.streams[i].codec_type = "subtitle"
                /\ Lower(o.streams[i].language) \in codes >>

\* MediaQualityChecker.check_file_streams with self.english_codes = codes:
\* <<has_eng_audio, has_eng_subs>>; every failure, an exception raised while
\* the streams are read included, gives <<FALSE, FALSE>>
check_file_streams(codes, o) ==
    IF o.kind # "ok"
    THEN <<FALSE, FALSE>>
    ELSE << \E i \in 1..Len(o.streams) :
                /\ o.streams[i].codec_type = "audio"
                /\ Lower(o.streams[i].language) \in codes,
            \E i \in 1..Len(o.streams) :
                /\ o.streams[i].codec_type = "subtitle"
                /\ Lower(o.streams[i].language) \in codes >>

\* a plausible slip: the second requirement is only looked at when the first
\* one is configured
should_redownload_nested(ra, rs, has_eng_audio, has_eng_subs) ==
    IF ra
    THEN (IF ~has_eng_audio THEN TRUE
          ELSE IF rs /\ ~has_eng_subs THEN TRUE ELSE FALSE)
    ELSE FALSE

\* MediaQualityChecker.should_redownload, with self.require_audio and
\* self.require_subs passed as ra and rs
should_redownload(ra, rs, has_eng_audio, has_eng_subs) ==
    IF ra /\ ~has_eng_audio THEN TRUE
    ELSE IF rs /\ ~has_eng_subs THEN TRUE
    ELSE FALSE

(* ------------------------- the library APIs ---------------------------- *)
\* an HTTP exchange: ok is a 2xx answer; body is the decoded JSON
Failed == [ok |-> FALSE, body |-> <<>>]
Answer(b) == [ok |-> TRUE, body |-> b]

\* MediaQualityChecker._make_request: None (here Failed) on a request error,
\* else the decoded body ({} for an empty one)
make_request(resp) == IF resp.ok THEN resp ELSE Failed

\* Python truth of what _make_request returned: None, {} and [] are false
Truthy(r) == r.ok /\ r.body # <<>>

\* the mutating requests, as logged
Call(m, e, i, n, ids, g, x) ==
    [method |-> m, endpoint |-> e, id |-> i, name |-> n, ids |-> ids,
     guid |-> g, indexerId |-> x]
DeleteCall(lib, file_id) ==
    Call("DELETE", IF lib = "sonarr" THEN "episodefile" ELSE "moviefile",
         file_id, "", <<>>, "", None)
CommandCall(name, ids) == Call("POST", "command", NoId, name, ids, "", None)
ReleaseCall(guid, indexer_id) ==
    Call("POST", "release", NoId, "", <<>>, guid, indexer_id)

\* GET episode?seriesId=...: the series' episodes; an episode points at the
\* file record while that record exists in the library
EpisodeTable(file_id, linked, deleted) ==
    [e \in 1..NumEpisodes |->
        [id |-> e,
         episodeFileId |-> IF e \in linked /\ ~deleted THEN file_id ELSE NoId]]

\* MediaQualityChecker.get_episodes_for_file, given the answer to its GET
get_episodes_for_file(resp, episode_file_id) ==
    LET episodes == make_request(resp) IN
    IF ~Truthy(episodes)
    THEN <<>>
    ELSE LET mine == SelectSeq(episodes.body,
                         LAMBDA ep : ep.episodeFileId = episode_file_id)
         IN [i \in 1..Len(mine) |-> mine[i].id]

(* ----------------------------- releases -------------------------------- *)
\* a title is a tuple of characters, so that substring search is computed
Release(g, x, t, q, sz) ==
    [guid |-> g, indexerId |-> x, title |-> t, quality_id |-> q, size |-> sz]

\* the releases an indexer can offer; the second lacks a guid and the third
\* an indexerId (download_release tests for both)
ReleaseSet ==
    { Release("g1", 0, <<"A", "b">>, 8, 1),
      Release("", 1, <<"a", "B">>, 5, 20),
      Release("g3", None, <<"c">>, 5, 10) }

RECURSIVE SeqsUpTo(_, _)
SeqsUpTo(S, n) ==
    IF n = 0 THEN {<<>>}
    ELSE LET shorter == SeqsUpTo(S, n - 1) IN
         shorter \cup {Append(s, x) : s \in {t \in shorter : Len(t) = n - 1}, x \in S}

\* the bodies GET release?... can answer with
ApiReleaseLists == SeqsUpTo(ReleaseSet, MaxReleases)

\* a key that puts the smaller release of a tier first
sort_key_smallest_first(release) == <<-release.quality_id, release.size>>

\* sort_key of display_releases_and_select
sort_key(release) == <<-release.quality_id, -release.size>>
KeyLess(a, b) == a[1] < b[1] \/ (a[1] = b[1] /\ a[2] < b[2])

\* sorted(releases, key=sort_key): a stable sort, here by insertion
RECURSIVE InsertSorted(_, _)
InsertSorted(sorted, r) ==
    IF sorted = <<>> THEN <<r>>
    ELSE IF KeyLess(sort_key(r), sort_key(sorted[Len(sorted)]))
         THEN Append(InsertSorted(SubSeq(sorted, 1, Len(sorted) - 1), r),
                     sorted[Len(sorted)])
         ELSE Append(sorted, r)
RECURSIVE SortReleases(_)
SortReleases(rs) ==
    IF rs = <<>> THEN <<>>
    ELSE InsertSorted(SortReleases(SubSeq(rs, 1, Len(rs) - 1)), rs[Len(rs)])

\* a title left as it is written
KeepCase(t) == t

\* str.lower() on a title or a search term
LowerSeq(t) == [i \in 1..Len(t) |-> Lower(t[i])]
\* Python's `a in b` on strings
Contains(a, b) ==
    \E i \in 0..(Len(b) - Len(a)) : SubSeq(b, i + 1, i + Len(a)) = a

\* what the operator can type at "Enter search term: " (stripped)
Terms == { <<>>, <<"B">>, <<"x">> }

\* an outcome without requests that marks the file as skipped all the same
nothing_but_skipped(msgs) == [calls |-> <<>>, printed |-> msgs, mark |-> "skipped"]

\* a loop that shows every release whatever the search term
FilterReleasesOff(releases, search_term) == releases

\* the filter step of the selection loop (search_term "" is no filter)
FilterReleases(releases, search_term) ==
    IF search_term # <<>>
    THEN SelectSeq(releases,
             LAMBDA r : Contains(LowerSeq(search_term), LowerSeq(r.title)))
    ELSE releases

\* a row of the source model of ManualSearchDialog: the Title, Quality and
\* Indexer columns
Row(t, q, x) == [title |-> t, quality |-> q, indexer |-> x]

RowSet ==
    { Row(<<"A", "b">>, "HD", "nzb"),
      Row(<<"a", "B">>, "SD", "nzb"),
      Row(<<"c">>, "HD", "") }

\* the entries of quality_combo and indexer_combo; "" is 'All'
Qualities == {"", "HD", "SD"}
Indexers == {"", "nzb", "tor"}

\* _SearchFilterProxy.filterAcceptsRow, with the proxy set up by
\* ManualSearchDialog: a fixed string on column 0, case-insensitive
filterAcceptsRow(row, text, quality, indexer) ==
    IF ~Contains(LowerSeq(text), LowerSeq(row.title))
    THEN FALSE
    ELSE IF quality # "" /\ row.quality # quality
    THEN FALSE
    ELSE IF indexer # "" /\ row.indexer # indexer
    THEN FALSE
    ELSE TRUE

\* the rows the proxy shows of the source model
FilterRows(rows, text, quality, indexer) ==
    SelectSeq(rows, LAMBDA row : filterAcceptsRow(row, text, quality, indexer))

\* MediaQualityChecker.download_release, given the answer to its POST:
\* the requests it issues, what it prints and what it returns
download_release(release, resp) ==
    IF release.guid = "" \/ release.indexerId = None
    THEN [calls |-> <<>>, printed |-> "invalid_release", result |-> FALSE]
    ELSE LET result == make_request(resp) IN
         [calls |-> <<ReleaseCall(release.guid, release.indexerId)>>,
          printed |-> IF Truthy(result) THEN "queued" ELSE "queue_failed",
          result |-> Truthy(result)]

(* --------------------------- the caches -------------------------------- *)
\* a variant that forgets the path
add_good_file_noop(set, list, file_path) == [set |-> set, list |-> list]

\* a variant that appends without looking at the set
add_good_file_appending(set, list, file_path) ==
    [set |-> set \cup {file_path}, list |-> Append(list, file_path)]

\* MediaQualityChecker._add_good_file on (self._good_files_set,
\* self.files_cache['good_files'])
add_good_file(set, list, file_path) ==
    IF file_path \notin set
    THEN [set |-> set \cup {file_path}, list |-> Append(list, file_path)]
    ELSE [set |-> set, list |-> list]

\* a variant that loses the path
add_skipped_file_forgetting(set, list, file_path) == [set |-> set, list |-> list]

\* MediaQualityChecker._add_skipped_file on (self._skipped_files_set,
\* self.user_cache['skipped_files'])
add_skipped_file(set, list, file_path) ==
    IF file_path \notin set
    THEN [set |-> set \cup {file_path}, list |-> Append(list, file_path)]
    ELSE [set |-> set, list |-> list]

\* Config.save_user_cache / save_files_cache: a full rewrite; a failed write
\* is only warned about
\* a save_caches that writes nothing
save_cache_skipped(stored, cache, write_ok) == stored

save_cache(stored, cache, write_ok) == IF write_ok THEN cache ELSE stored

(* ------------- sonarr_ui_helper.py: probe_file and its cache ----------- *)
\* sizes a file can have on disk
MaxSize == 2
Sizes == 1..MaxSize
\* os.path.getsize raises OSError: the file is missing or unreadable
Unreadable == 0

\* a bit_rate that int() cannot convert: int(...) raises ValueError
NotANumber == -1

\* str.upper() on codec names
Upper(s) ==
    CASE s = "h264" -> "H264"
      [] s = "hevc" -> "HEVC"
      [] s = "aac" -> "AAC"
      [] s = "ac3" -> "AC3"
      [] OTHER -> s

\* one entry of ffprobe's "streams"; an absent field has the default that
\* probe_file's s.get(...) gives it; dovi: the side_data_list holds a Dolby
\* Vision configuration record
VideoStream(codec, w, h, br, transfer, space, dovi) ==
    [codec_type |-> "video", codec_name |-> codec, width |-> w, height |-> h,
     bit_rate |-> br, color_transfer |-> transfer, color_space |-> space,
     dovi |-> dovi, language |-> ""]
AudioStream(codec, br, lang) ==
    [codec_type |-> "audio", codec_name |-> codec, width |-> 0, height |-> 0,
     bit_rate |-> br, color_transfer |-> "", color_space |-> "",
     dovi |-> FALSE, language |-> lang]
SubtitleStream(lang) ==
    [codec_type |-> "subtitle", codec_name |-> "", width |-> 0, height |-> 0,
     bit_rate |-> 0, color_transfer |-> "", color_space |-> "",
     dovi |-> FALSE, language |-> lang]

\* what one run of the tool can give probe_file
ToolOutcomes ==
    {[kind |-> k, streams |-> <<>>, format_bit_rate |-> 0] :
        k \in {"nonzero", "timeout", "malformed"}}
    \cup
    {[kind |-> "ok", streams |-> <<>>, format_bit_rate |-> 0],
     [kind |-> "ok", format_bit_rate |-> 5000000, streams |->
        <<VideoStream("h264", 1920, 1080, 0, "bt709", "bt709", FALSE),
          AudioStream("aac", 128000, "eng")>>],
     [kind |-> "ok", format_bit_rate |-> 0, streams |->
        <<VideoStream("hevc", 3840, 2160, 9000000, "smpte2084", "bt2020nc", TRUE),
          VideoStream("h264", 0, 0, 0, "", "", FALSE),
          AudioStream("ac3", 0, ""),
          SubtitleStream("eng")>>],
     \* the output parses, but a field of an entry cannot be converted
     [kind |-> "malformed", format_bit_rate |-> 0, streams |->
        <<VideoStream("h264", 1920, 1080, NotANumber, "bt709", "bt709", FALSE)>>]}

\* the tool cannot open a file that os.path.getsize could not find
ToolOutcomesFor(size) ==
    IF size = Unreadable
    THEN {o \in ToolOutcomes : o.kind \in {"nonzero", "timeout"}}
    ELSE ToolOutcomes

\* the `info` dict of probe_file; a string built by an f-string is the tuple of
\* its numbers (<<>> is ''), has_video_resolution tells whether the key
\* 'video_resolution' is in the dict
EmptyInfo(size) ==
    [video_codec |-> "", video_resolution |-> <<>>, video_bitrate |-> <<>>,
     audio_codec |-> "", audio_bitrate |-> <<>>, hdr |-> "",
     audio_langs |-> <<>>, sub_langs |-> <<>>, size_bytes |-> size,
     has_video_resolution |-> TRUE]

\* the body of probe_file's loop over the streams, for one stream
ScanStream(info, st) ==
    IF st.codec_type = "video" /\ info.video_codec = ""
    THEN [info EXCEPT
            !.video_codec = Upper(st.codec_name),
            !.video_resolution =
                IF st.width # 0 /\ st.height # 0 THEN <<st.width, st.height>> ELSE <<>>,
            !.video_bitrate =
                IF st.bit_rate # 0 THEN <<st.bit_rate \div 1000>> ELSE <<>>,
            !.hdr = IF st.dovi THEN "DV"
                    ELSE IF st.color_transfer \in {"smpte2084", "arib-std-b67"}
                            \/ st.color_space \in {"bt2020nc", "bt2020c"}
                         THEN "HDR"
                         ELSE "SDR"]
    ELSE IF st.codec_type = "audio"
    THEN LET a == IF info.audio_codec = ""
                  THEN [info EXCEPT
                          !.audio_codec = Upper(st.codec_name),
                          !.audio_bitrate =
                              IF st.bit_rate # 0 THEN <<st.bit_rate \div 1000>> ELSE <<>>]
                  ELSE info
         IN IF st.language # ""
            THEN [a EXCEPT !.audio_langs = Append(@, st.language)]
            ELSE a
    ELSE IF st.codec_type = "subtitle"
    THEN IF st.language # ""
         THEN [info EXCEPT !.sub_langs = Append(@, st.language)]
         ELSE info
    ELSE info

\* int(s.get('bit_rate', 0) or 0) raises for this stream
Raises(info, st) ==
    /\ st.bit_rate = NotANumber
    /\ \/ st.codec_type = "video" /\ info.video_codec = ""
       \/ st.codec_type = "audio" /\ info.audio_codec = ""

\* what the loop body has assigned by the time int() raises
ScanStreamRaising(info, st) ==
    IF st.codec_type = "video"
    THEN [info EXCEPT
            !.video_codec = Upper(st.codec_name),
            !.video_resolution =
                IF st.width # 0 /\ st.height # 0 THEN <<st.width, st.height>> ELSE <<>>]
    ELSE [info EXCEPT !.audio_codec = Upper(st.codec_name)]

\* the loop over the streams: the info it leaves and whether it raised
RECURSIVE ScanStreams(_, _)
ScanStreams(info, streams) ==
    IF streams = <<>> THEN [info |-> info, raised |-> FALSE]
    ELSE IF Raises(info, Head(streams))
    THEN [info |-> ScanStreamRaising(info, Head(streams)), raised |-> TRUE]
    ELSE ScanStreams(ScanStream(info, Head(streams)), Tail(streams))

\* the lookup at the top of probe_file: the entry under the path is served
\* when it is there, has the current size and has the field 'video_resolution'
CacheHit(cache, file_path, size) ==
    /\ cache[file_path] # <<>>
    /\ cache[file_path][1].size_bytes = size
    /\ cache[file_path][1].has_video_resolution

\* probe_file(file_path) on the cache `cache` (a path's entry is <<>> or
\* <<dict>>), with the file's size on disk and, when the tool is run, its
\* outcome: the dict returned, the cache afterwards, and how often the tool ran
probe_file(cache, file_path, on_disk, out) ==
    LET size == IF on_disk = Unreadable THEN 0 ELSE on_disk
        info == EmptyInfo(size)
    IN IF CacheHit(cache, file_path, size)
       THEN [result |-> cache[file_path][1], cache |-> cache, invoked |-> 0]
       ELSE IF out.kind = "nonzero"
       THEN [result |-> info, cache |-> cache, invoked |-> 1]
       ELSE LET filled ==
                  \* subprocess.run or json.loads raises: info as initialised
                  IF out.kind = "timeout" \/ (out.kind = "malformed" /\ out.streams = <<>>)
                  THEN info
                  ELSE LET scan == ScanStreams(info, out.streams) IN
                       IF scan.raised
                       THEN scan.info
                       ELSE IF scan.info.video_bitrate = <<>> /\ out.format_bit_rate # 0
                       THEN [scan.info EXCEPT
                               !.video_bitrate = <<out.format_bit_rate \div 1000>>]
                       ELSE scan.info
            IN [result |-> filled,
                cache |-> [cache EXCEPT ![file_path] = <<filled>>],
                invoked |-> 1]

VARIABLES
    probe_cache,       \* _probe_cache: path -> <<>> or <<dict>>
    probe_cache_file,  \* z_fprobe.cache as stored
    on_disk,           \* the size of each file on disk, or Unreadable
    last               \* <<>> or the latest probe_file call: its path, the
                       \* size it saw, what it returned, the tool's outcome

probe_vars == <<probe_cache, probe_cache_file, on_disk, last>>

\* a function of the program applied on its own
VARIABLES
    fn_in,    \* the function applied and its arguments
    fn_out    \* what it returned

fn_vars == <<fn_in, fn_out>>

VARIABLES
    library,    \* what Sonarr answers in this run: whether GET series succeeds,
                \* and for each series whether GET episodefile succeeds and
                \* how many files it lists
    series_at,  \* how many series the loop of process_sonarr has taken up
    files_at    \* how many files of the series in hand the loop has taken up

walk_vars == <<library, series_at, files_at>>

\* no library is laid down: the answers of the APIs are left open
WalkIdle ==
    /\ library = [listed_ok |-> FALSE, series |-> <<>>]
    /\ series_at = 0
    /\ files_at = 0

\* sonarr_ui_helper.py: the main window and its background loaders
VARIABLES
    main,     \* what the main thread is in: "idle" (the event loop), "clearing"
              \* (_clear_cache_and_refresh before its call of _refresh),
              \* "waiting" / "closing" (worker.wait(5000) of _refresh / of
              \* closeEvent), "closed"; "none": no window
    worker,   \* self.worker: which of `workers` it is
    workers,  \* the LoadWorker threads started, in order
    posted,   \* series_ready emissions queued for the main thread
    tree,     \* whose emission filled the model; 0: the model has no rows
    nodes,    \* the rows of the tree a context action can be run on
    done      \* <<>> or what the latest context action asked and did

ui_vars == <<main, worker, workers, posted, tree, nodes, done>>

\* no window is open
UiIdle ==
    /\ main = "none"
    /\ worker = 0
    /\ workers = <<>>
    /\ posted = <<>>
    /\ tree = 0
    /\ nodes = {}
    /\ done = <<>>

\* an entry written before the schema had 'video_resolution'
OldEntry(size) == [EmptyInfo(size) EXCEPT !.has_video_resolution = FALSE]

(* ------------------- the checker: state of one run --------------------- *)
VARIABLES
    ffprobe_path,  \* what find_ffprobe returned to main: "" is None
    require_audio, require_subs, interactive, dry_run,  \* settings of the run
    good_files_set, skipped_files_set,  \* self._good_files_set, self._skipped_files_set
    files_cache, user_cache,            \* the lists files_cache['good_files'], user_cache['skipped_files']
    disk_files_cache, disk_user_cache,  \* z_files.cache, z_user.cache as stored
    pc,          \* where the run is
    listed,      \* how many files the run has met so far: paths 1..listed
    cur,         \* the file being handled and the handler's locals
    at_start,    \* the caches as they were when handling of cur began
    calls,       \* mutating requests issued while handling cur, in order
    printed      \* messages printed while handling cur

settings == <<ffprobe_path, require_audio, require_subs, interactive, dry_run>>
memory == <<good_files_set, skipped_files_set, files_cache, user_cache>>
disk == <<disk_files_cache, disk_user_cache>>
checker_vars == <<settings, memory, disk, pc, listed, cur, at_start, calls, printed>>

Snapshot ==
    [good |-> good_files_set, skipped |-> skipped_files_set,
     files_cache |-> files_cache, user_cache |-> user_cache,
     disk_files |-> disk_files_cache, disk_user |-> disk_user_cache]

NoFile ==
    [lib |-> "none", path |-> NoPath, file_id |-> NoId, entity_id |-> NoId,
     linked |-> {}, probed |-> FALSE, has_eng_audio |-> FALSE,
     has_eng_subs |-> FALSE, verdict |-> FALSE, episode_ids |-> <<>>,
     releases |-> <<>>, search_term |-> <<>>, selected |-> <<>>]

\* the cache files a previous run can have left: each path at most once
RECURSIVE ListOf(_)
ListOf(S) ==
    IF S = {} THEN <<>>
    ELSE LET m == CHOOSE x \in S : \A y \in S : x <= y
         IN <<m>> \o ListOf(S \ {m})

\* main at its start: what find_ffprobe and the settings will give, and what
\* MediaQualityChecker.__init__ makes of the cache files a previous run has left
\* (each path at most once): the sets are built from the stored lists; a cache
\* file that cannot be read or parsed is only warned about and gives {}
Construct(files_loadable, user_loadable) ==
    /\ ffprobe_path \in {"", "ffprobe"}
    /\ require_audio \in BOOLEAN
    /\ require_subs \in BOOLEAN
    /\ interactive \in BOOLEAN
    /\ dry_run \in BOOLEAN
    /\ \E g \in SUBSET Paths, k \in SUBSET Paths :
          /\ Cardinality(g) + Cardinality(k) <= MaxCached
          /\ disk_files_cache = ListOf(g)
          /\ disk_user_cache = ListOf(k)
          /\ \E files_loaded \in files_loadable, user_loaded \in user_loadable :
                /\ files_cache = IF files_loaded THEN ListOf(g) ELSE <<>>
                /\ user_cache = IF user_loaded THEN ListOf(k) ELSE <<>>
                /\ good_files_set = IF files_loaded THEN g ELSE {}
                /\ skipped_files_set = IF user_loaded THEN k ELSE {}
    /\ pc = "main"
    /\ listed = 0
    /\ cur = NoFile
    /\ at_start = [good |-> good_files_set, skipped |-> skipped_files_set,
                   files_cache |-> files_cache, user_cache |-> user_cache,
                   disk_files |-> disk_files_cache, disk_user |-> disk_user_cache]
    /\ calls = <<>>
    /\ printed = {}

\* the checker constructed with both cache files read
CheckerInit == Construct({TRUE}, {TRUE})

\* the checker constructed, a cache file possibly failing to load
CheckerInitAnyLoad == Construct(BOOLEAN, BOOLEAN)

(* --------------- the checker: what handling a file does ---------------- *)
\* the outcome of one branch of the per-file handler: the mutating requests it
\* issues in order, what it prints, and the cache it marks the path in
Effect(c, p, m) == [calls |-> c, printed |-> p, mark |-> m]

\* a variant of the unattended branch that does not look at dry_run
reacquire_unattended_live(lib, dr, entity_id, file_id, eps_resp) ==
    [calls |-> <<DeleteCall(lib, file_id),
                 CommandCall(IF lib = "sonarr" THEN "EpisodeSearch" ELSE "MoviesSearch",
                             <<entity_id>>)>>,
     printed |-> {"issue", "deleting", "searching"}, mark |-> "none"]

\* a variant of the unattended branch that records the path as skipped once
\* the file is deleted and the search requested
reacquire_unattended_marking(lib, dr, entity_id, file_id, eps_resp) ==
    IF ~dr
    THEN [calls |-> <<DeleteCall(lib, file_id),
                      CommandCall(IF lib = "sonarr" THEN "EpisodeSearch" ELSE "MoviesSearch",
                                  <<entity_id>>)>>,
          printed |-> {"issue", "deleting", "searching"}, mark |-> "skipped"]
    ELSE [calls |-> <<>>, printed |-> {"issue", "dry_run_would_delete"}, mark |-> "none"]

\* a variant of the unattended branch that keeps the file and remembers it
\* as skipped
reacquire_unattended_skipping(lib, dr, entity_id, file_id, eps_resp) ==
    [calls |-> <<>>, printed |-> {"issue", "marked_skip"}, mark |-> "skipped"]

\* a variant of the interactive branch that does not look at dry_run
replace_selected_live(lib, dr, file_id, selected, post_resp) ==
    IF selected # <<>>
    THEN LET d == download_release(selected[1], post_resp) IN
         [calls |-> <<DeleteCall(lib, file_id)>> \o d.calls,
          printed |-> {"deleting", d.printed}, mark |-> "none"]
    ELSE [calls |-> <<>>, printed |-> {}, mark |-> "none"]

\* process_sonarr / process_radarr, unattended branch for a flagged file that
\* is not in the skipped set; eps_resp answers the GET of get_episodes_for_file
reacquire_unattended(lib, dr, entity_id, file_id, eps_resp) ==
    IF ~dr
    THEN IF lib = "sonarr"
         THEN LET episode_ids == get_episodes_for_file(eps_resp, file_id) IN
              IF episode_ids # <<>>
              THEN Effect(<<DeleteCall(lib, file_id),
                            CommandCall("EpisodeSearch", episode_ids)>>,
                          {"issue", "deleting", "searching"}, "none")
              ELSE Effect(<<DeleteCall(lib, file_id)>>,
                          {"issue", "deleting"}, "none")
         ELSE Effect(<<DeleteCall(lib, file_id),
                       CommandCall("MoviesSearch", <<entity_id>>)>>,
                     {"issue", "deleting", "searching"}, "none")
    ELSE Effect(<<>>, {"issue", "dry_run_would_delete"}, "none")

\* process_sonarr / process_radarr, after display_releases_and_select has
\* returned `selected` (<<>> is None); post_resp answers the release POST
replace_selected(lib, dr, file_id, selected, post_resp) ==
    IF selected # <<>> /\ ~dr
    THEN LET d == download_release(selected[1], post_resp) IN
         Effect(<<DeleteCall(lib, file_id)>> \o d.calls,
                {"deleting", d.printed}, "none")
    ELSE IF selected # <<>> /\ dr
    THEN Effect(<<>>, {"dry_run_would_download"}, "none")
    ELSE Effect(<<>>, {}, "none")

\* the else branch of should_redownload: _add_good_file and save_caches
file_ok == Effect(<<>>, {"ok"}, "good")
\* the operator answers No to "View alternative releases?", or enters 0
marked_skip == Effect(<<>>, {"marked_skip"}, "skipped")
nothing(msgs) == Effect(<<>>, msgs, "none")

\* whether a write of save_caches can fail: nothing is written without a mark
WriteOutcomes(mark) == IF mark = "none" THEN {TRUE} ELSE BOOLEAN

\* "Warning: Could not save ... cache", printed for each failed write
Warnings(user_ok, files_ok) ==
    (IF user_ok THEN {} ELSE {"user_cache_not_saved"})
    \cup (IF files_ok THEN {} ELSE {"files_cache_not_saved"})

\* the cache updates of an outcome: _add_good_file or _add_skipped_file, each
\* followed by save_caches, which rewrites both files
Mark(mark, file_path, user_ok, files_ok) ==
    IF mark = "good"
    THEN    LET g == add_good_file(good_files_set, files_cache, file_path) IN
            /\ good_files_set' = g.set
            /\ files_cache' = g.list
            /\ UNCHANGED <<skipped_files_set, user_cache>>
            /\ disk_user_cache' = save_cache(disk_user_cache, user_cache, user_ok)
            /\ disk_files_cache' = save_cache(disk_files_cache, g.list, files_ok)
    ELSE IF mark = "skipped"
    THEN    LET k == add_skipped_file(skipped_files_set, user_cache, file_path) IN
            /\ skipped_files_set' = k.set
            /\ user_cache' = k.list
            /\ UNCHANGED <<good_files_set, files_cache>>
            /\ disk_user_cache' = save_cache(disk_user_cache, k.list, user_ok)
            /\ disk_files_cache' = save_cache(disk_files_cache, files_cache, files_ok)
    ELSE UNCHANGED <<memory, disk>>

\* what check_file_streams can return to the run for a file
ProbeResults == {check_file_streams(english_codes, o) : o \in ProbeOutcomes}

\* handling of a new file begins and runs up to next_pc
Begin(file, e, next_pc) ==
    /\ cur' = file
    /\ at_start' = Snapshot
    /\ listed' = file.path
    /\ calls' = e.calls
    /\ \E user_ok \in WriteOutcomes(e.mark), files_ok \in WriteOutcomes(e.mark) :
          /\ printed' = e.printed \cup Warnings(user_ok, files_ok)
          /\ Mark(e.mark, file.path, user_ok, files_ok)
    /\ pc' = next_pc

\* handling of cur goes on after a prompt was answered
Continue(file, e, next_pc) ==
    /\ cur' = file
    /\ calls' = calls \o e.calls
    /\ \E user_ok \in WriteOutcomes(e.mark), files_ok \in WriteOutcomes(e.mark) :
          /\ printed' = printed \cup e.printed \cup Warnings(user_ok, files_ok)
          /\ Mark(e.mark, file.path, user_ok, files_ok)
    /\ pc' = next_pc
    /\ UNCHANGED <<at_start, listed>>

\* KeyboardInterrupt at a prompt outside a try block (Confirm.ask, the
\* "Press Enter to clear filter" input): the run ends
Abort ==
    /\ pc' = "aborted"
    /\ cur' = NoFile
    /\ at_start' = Snapshot
    /\ calls' = <<>>
    /\ printed' = {}
    /\ UNCHANGED <<memory, disk, listed>>

\* the loop over the files is left: no file is being handled
Leave ==
    /\ cur' = NoFile
    /\ at_start' = Snapshot
    /\ calls' = <<>>
    /\ printed' = {}

\* where the loop over the files goes on
Ret == IF cur.lib = "sonarr" THEN "sonarr_files" ELSE "radarr_movies"

\* a loop that passes over every file once any file is verified
some_file_verified(file_path, good) == good # {}

\* a loop that takes no file for verified
never_verified(file_path, good) == FALSE

\* `if file_path in self._good_files_set`: the file is passed over
already_verified(file_path, good) == file_path \in good

\* a loop that takes no file for skipped
never_skipped(file_path, skipped) == FALSE

\* `if file_path in self._skipped_files_set`, asked of a flagged file
previously_skipped(file_path, skipped) == file_path \in skipped

\* the body of the per-file loop of process_sonarr (lines 535-639) and of
\* process_radarr (lines 670-769), up to its first prompt or to its end;
\* `linked` are the episodes the library holds for the file
ExamineFile(lib, entity_id, file_path, file_id, linked) ==
    IF file_path = NoPath \/ file_id = NoId
    THEN UNCHANGED <<memory, disk, pc, listed, cur, at_start, calls, printed>>
    ELSE LET file == [NoFile EXCEPT !.lib = lib, !.path = file_path,
                         !.file_id = file_id, !.entity_id = entity_id,
                         !.linked = linked]
         IN
         IF already_verified(file_path, good_files_set)
         THEN Begin(file, nothing(IF interactive THEN {"skip_verified"} ELSE {}), pc)
         ELSE \E streams \in ProbeResults :
            LET verdict == should_redownload(require_audio, require_subs,
                                             streams[1], streams[2])
                probed == [file EXCEPT !.probed = TRUE,
                             !.has_eng_audio = streams[1],
                             !.has_eng_subs = streams[2],
                             !.verdict = verdict]
            IN
            IF ~verdict
            THEN Begin(probed, file_ok, pc)
            ELSE IF previously_skipped(file_path, skipped_files_set)
            THEN Begin(probed, nothing(IF interactive THEN {"skip_skipped"} ELSE {}), pc)
            ELSE IF interactive
            THEN IF lib = "sonarr"
                 THEN \E eps_resp \in {Failed, Answer(EpisodeTable(file_id, linked, FALSE))} :
                        LET episode_ids == get_episodes_for_file(eps_resp, file_id) IN
                        IF episode_ids # <<>>
                        THEN Begin([probed EXCEPT !.episode_ids = episode_ids],
                                   nothing({"issue"}), "confirm")
                        ELSE Begin(probed, nothing({"issue", "no_episode_ids"}), pc)
                 ELSE Begin(probed, nothing({"issue"}), "confirm")
            ELSE \E del_resp \in {Failed, Answer(<<>>)} :
                 \E eps_resp \in {Failed,
                        Answer(EpisodeTable(file_id, linked, make_request(del_resp).ok))} :
                    Begin(probed,
                          reacquire_unattended(lib, dry_run, entity_id, file_id, eps_resp),
                          pc)

(* ---------------------- the checker: the run --------------------------- *)
\* the record the library lists next: a file under a path not met before, with
\* or without its path field
NextPaths == (IF listed < NumPaths THEN {listed + 1} ELSE {}) \cup {NoPath}

\* a main that does not look for the tool
ffprobe_assumed(path) == TRUE

\* main: `if not ffprobe_path` is false
ffprobe_found(path) == path # ""

\* main, up to process_sonarr: without ffprobe it prints the error and exits
\* with status 1
Main ==
    /\ pc = "main"
    /\ UNCHANGED <<probe_vars, fn_vars, walk_vars, ui_vars>>
    /\ pc' = IF ffprobe_found(ffprobe_path) THEN "sonarr_start" ELSE "exit"
    /\ UNCHANGED <<settings, memory, disk, listed, cur, at_start, calls, printed>>

\* process_sonarr: GET series; the run of Sonarr ends when it gives nothing
SonarrStart ==
    /\ pc = "sonarr_start"
    /\ UNCHANGED <<probe_vars, fn_vars, walk_vars, ui_vars>>
    /\ \E resp \in {Failed, Answer(<<>>), Answer(<<"series">>)} :
          LET series_list == make_request(resp) IN
          IF ~Truthy(series_list)
          THEN pc' = "radarr_start"
          ELSE pc' = "sonarr_series"
    /\ UNCHANGED <<settings, memory, disk, listed, cur, at_start, calls, printed>>

\* a loop over the series that a failed read of the episode files ends
series_loop_ending(episode_files) ==
    IF ~Truthy(episode_files) THEN "radarr_start" ELSE "sonarr_files"

\* process_sonarr: `if not episode_files: continue`, else the loop over the
\* files of the series
series_loop_next(episode_files) ==
    IF ~Truthy(episode_files) THEN "sonarr_series" ELSE "sonarr_files"

\* process_sonarr: the loop over series_list, with the GET of the episode
\* files of the next series
SonarrSeries ==
    /\ pc = "sonarr_series"
    /\ UNCHANGED <<probe_vars, fn_vars, walk_vars, ui_vars>>
    /\ \/ pc' = "radarr_start"
       \/ \E resp \in {Failed, Answer(<<>>), Answer(<<"episode_files">>)} :
               LET episode_files == make_request(resp) IN
               pc' = series_loop_next(episode_files)
    /\ UNCHANGED <<settings, memory, disk, listed, cur, at_start, calls, printed>>

\* process_sonarr: the loop over episode_files
SonarrFiles ==
    /\ pc = "sonarr_files"
    /\ UNCHANGED <<probe_vars, fn_vars, walk_vars, ui_vars>>
    /\ \/ /\ pc' = "sonarr_series"
          /\ Leave
          /\ UNCHANGED <<memory, disk, listed>>
       \/ \E file_path \in NextPaths, has_id \in BOOLEAN,
             linked \in {1..k : k \in 0..NumEpisodes} :
             ExamineFile("sonarr", NoId, file_path,
                         IF has_id /\ file_path # NoPath THEN FileId(file_path) ELSE NoId,
                         linked)
    /\ UNCHANGED settings

\* process_radarr: GET movie
RadarrStart ==
    /\ pc = "radarr_start"
    /\ UNCHANGED <<probe_vars, fn_vars, walk_vars, ui_vars>>
    /\ \E resp \in {Failed, Answer(<<>>), Answer(<<"movies">>)} :
          LET movies == make_request(resp) IN
          IF ~Truthy(movies)
          THEN pc' = "done"
          ELSE pc' = "radarr_movies"
    /\ UNCHANGED <<settings, memory, disk, listed, cur, at_start, calls, printed>>

\* process_radarr: the loop over movies
RadarrMovies ==
    /\ pc = "radarr_movies"
    /\ UNCHANGED <<probe_vars, fn_vars, walk_vars, ui_vars>>
    /\ \/ /\ pc' = "done"
          /\ Leave
          /\ UNCHANGED <<memory, disk, listed>>
       \/ \E movie_id \in 1..NumEntities, has_file \in BOOLEAN :
             IF ~has_file
             THEN UNCHANGED <<memory, disk, pc, listed, cur, at_start, calls, printed>>
             ELSE \E file_path \in NextPaths, has_id \in BOOLEAN :
                     ExamineFile("radarr", movie_id, file_path,
                         IF has_id /\ file_path # NoPath THEN FileId(file_path) ELSE NoId,
                         {})
    /\ UNCHANGED settings

\* get_episode_releases / get_movie_releases: `releases or []`
get_releases(resp) ==
    LET releases == make_request(resp) IN
    IF Truthy(releases) THEN releases.body ELSE <<>>

\* Confirm.ask("View alternative releases?") and, on Yes, the start of
\* display_releases_and_select up to its first prompt: the releases are
\* ranked and the table of all of them is printed
Confirm ==
    /\ pc = "confirm"
    /\ UNCHANGED <<probe_vars, fn_vars, walk_vars, ui_vars>>
    /\ UNCHANGED settings
    /\ \E answer \in {"y", "n", "interrupt"} :
          CASE answer = "n" -> Continue(cur, marked_skip, Ret)
            [] answer = "interrupt" -> Abort
            [] answer = "y" ->
                 \E resp \in {Failed} \cup {Answer(l) : l \in ApiReleaseLists} :
                    LET releases == get_releases(resp) IN
                    IF releases = <<>>
                    THEN Continue(cur, nothing({"no_releases"}), Ret)
                    ELSE Continue([cur EXCEPT !.releases = SortReleases(releases),
                                              !.search_term = <<>>],
                                  nothing({"table"}), "choice")

\* what the operator can enter at "[Your choice]: "
ChoiceInputs ==
    {[kind |-> k, n |-> 0] : k \in {"s", "c", "not_a_number", "interrupt"}}
    \cup {[kind |-> "int", n |-> i] : i \in (-2)..(MaxReleases + 1)}

\* display_releases_and_select returns `selected` and the loop body of
\* process_sonarr / process_radarr runs to its end
Selected(selected, msgs) ==
    \E post_resp \in {Failed, Answer(<<>>), Answer(<<"queued">>)} :
       LET e == replace_selected(cur.lib, dry_run, cur.file_id, selected, post_resp) IN
       Continue([cur EXCEPT !.selected = selected, !.releases = <<>>,
                            !.search_term = <<>>],
                Effect(e.calls, e.printed \cup msgs, e.mark), Ret)

\* the top of the selection loop after `continue`: the filter is applied
\* and the table shown, or nothing matches (the messages of the loop itself
\* are not recorded)
Reprompt(search_term, msgs) ==
    Continue([cur EXCEPT !.search_term = search_term], nothing(msgs),
             IF FilterReleases(cur.releases, search_term) = <<>>
             THEN "press_enter" ELSE "choice")

\* the try block of the selection loop on one answer at "[Your choice]: ":
\* where the loop goes (`continue` to the top, the prompt for a search term,
\* or `return`), the search term it goes on with, what it returns and whether
\* the path is added to the skipped files
choice_step(releases, search_term, in) ==
    LET filtered_releases == FilterReleases(releases, search_term)
        Step(next, term, selected, mark, msgs) ==
            [next |-> next, search_term |-> term, selected |-> selected,
             mark |-> mark, msgs |-> msgs]
    IN
    CASE in.kind = "s" -> Step("search_term", search_term, <<>>, "none", {})
      [] in.kind = "c" -> Step("continue", <<>>, <<>>, "none", {})
      [] in.kind = "not_a_number" -> Step("continue", search_term, <<>>, "none", {})
      [] in.kind = "interrupt" -> Step("return", search_term, <<>>, "none", {"skipped"})
      [] in.kind = "int" /\ in.n = -1 -> Step("return", search_term, <<>>, "none", {})
      [] in.kind = "int" /\ in.n = 0 ->
           Step("return", search_term, <<>>, "skipped", {"marked_skip"})
      [] in.kind = "int" /\ 1 <= in.n /\ in.n <= Len(filtered_releases) ->
           Step("return", search_term, <<filtered_releases[in.n]>>, "none", {})
      [] OTHER -> Step("continue", search_term, <<>>, "none", {})

\* display_releases_and_select: one answer at "[Your choice]: "
Choice ==
    /\ pc = "choice"
    /\ UNCHANGED <<probe_vars, fn_vars, walk_vars, ui_vars>>
    /\ UNCHANGED settings
    /\ \E in \in ChoiceInputs :
          LET step == choice_step(cur.releases, cur.search_term, in) IN
          CASE step.next = "search_term" -> Continue(cur, nothing({}), "search_term")
            [] step.next = "continue" -> Reprompt(step.search_term, step.msgs)
            [] step.next = "return" /\ step.mark = "skipped" ->
                 Continue([cur EXCEPT !.releases = <<>>, !.search_term = <<>>],
                          marked_skip, Ret)
            [] OTHER -> Selected(step.selected, step.msgs)

\* display_releases_and_select: the answer at "Enter search term: "
SearchTerm ==
    /\ pc = "search_term"
    /\ UNCHANGED <<probe_vars, fn_vars, walk_vars, ui_vars>>
    /\ UNCHANGED settings
    /\ \/ \E term \in Terms : Reprompt(term, {})
       \/ Selected(<<>>, {"skipped"})

\* display_releases_and_select: "Press Enter to clear filter"; this input()
\* is outside the try block, so an interrupt here ends the run
PressEnter ==
    /\ pc = "press_enter"
    /\ UNCHANGED <<probe_vars, fn_vars, walk_vars, ui_vars>>
    /\ UNCHANGED settings
    /\ \/ Reprompt(<<>>, {})
       \/ Abort

CheckerNext ==
    \/ Main
    \/ SonarrStart
    \/ SonarrSeries
    \/ SonarrFiles
    \/ RadarrStart
    \/ RadarrMovies
    \/ Confirm
    \/ Choice
    \/ SearchTerm
    \/ PressEnter

vars == <<checker_vars, probe_vars, fn_vars, walk_vars, ui_vars>>

\* while the checker runs, the UI helper's state is not in play
ProbeIdle ==
    /\ probe_cache = [p \in Paths |-> <<>>]
    /\ probe_cache_file = [p \in Paths |-> <<>>]
    /\ on_disk = [p \in Paths |-> Unreadable]
    /\ last = <<>>

\* no function is being applied on its own
FnIdle ==
    /\ fn_in = [fn |-> "none"]
    /\ fn_out = <<>>

Init == CheckerInit /\ ProbeIdle /\ FnIdle /\ WalkIdle /\ UiIdle

\* one run of media_quality_checker.py
Spec == Init /\ [][CheckerNext]_vars

InitAnyLoad == CheckerInitAnyLoad /\ ProbeIdle /\ FnIdle /\ WalkIdle /\ UiIdle

\* one run of media_quality_checker.py, also when a cache file is unreadable
\* at start
SpecAnyLoad == InitAnyLoad /\ [][CheckerNext]_vars

\* the same with the policy main takes by default (English audio and
\* subtitles both required) and requests really sent
InitDefaultPolicy == InitAnyLoad /\ require_audio /\ require_subs /\ ~dry_run
SpecDefaultPolicy == InitDefaultPolicy /\ [][CheckerNext]_vars

(* ------------- an unattended pass over a given Sonarr library ---------- *)
\* the series one GET series can list
MaxSeries == 2

\* a series: whether its GET episodefile succeeds, and the files it lists
Series == [ok : BOOLEAN, files : 0..NumPaths]

RECURSIVE SumFiles(_)
SumFiles(series) ==
    IF series = <<>> THEN 0
    ELSE (IF series[1].ok THEN series[1].files ELSE 0) + SumFiles(Tail(series))

\* the libraries a pass can meet: every file under a path of its own
Libraries ==
    {[listed_ok |-> ok, series |-> ss] :
        ok \in BOOLEAN,
        ss \in {l \in SeqsUpTo(Series, MaxSeries) :
                  /\ SumFiles(l) <= NumPaths
                  /\ \A i \in 1..Len(l) : ~l[i].ok => l[i].files = 0}}

\* main starts an unattended run on some library, with the policy the
\* settings default to and no cache file left by an earlier run
WalkInit ==
    /\ CheckerInit
    /\ ~interactive
    /\ require_audio /\ require_subs
    /\ disk_files_cache = <<>> /\ disk_user_cache = <<>>
    /\ ProbeIdle
    /\ FnIdle
    /\ UiIdle
    /\ library \in Libraries
    /\ series_at = 0
    /\ files_at = 0

\* process_sonarr: GET series; a failure ends the pass over Sonarr
WalkStart ==
    /\ pc = "sonarr_start"
    /\ LET series_list == make_request(IF library.listed_ok
                                       THEN Answer(library.series) ELSE Failed)
       IN pc' = IF ~Truthy(series_list) THEN "radarr_start" ELSE "sonarr_series"
    /\ UNCHANGED <<settings, memory, disk, listed, cur, at_start, calls, printed>>
    /\ UNCHANGED <<probe_vars, fn_vars, walk_vars, ui_vars>>

\* process_sonarr: the next series and the GET of its episode files, or the
\* end of the loop over the series
WalkSeries ==
    /\ pc = "sonarr_series"
    /\ IF series_at = Len(library.series)
       THEN /\ pc' = "radarr_start"
            /\ UNCHANGED <<series_at, files_at>>
       ELSE LET series == library.series[series_at + 1]
                episode_files ==
                    make_request(IF series.ok
                                 THEN Answer([i \in 1..series.files |-> "ep_file"])
                                 ELSE Failed)
            IN /\ pc' = series_loop_next(episode_files)
               /\ series_at' = series_at + 1
               /\ files_at' = 0
    /\ UNCHANGED <<settings, memory, disk, listed, cur, at_start, calls, printed>>
    /\ UNCHANGED <<probe_vars, fn_vars, library, ui_vars>>

\* process_sonarr: the next file of the series in hand, or the end of the
\* loop over its files
WalkFiles ==
    /\ pc = "sonarr_files"
    /\ IF files_at = library.series[series_at].files
       THEN /\ pc' = "sonarr_series"
            /\ Leave
            /\ UNCHANGED <<memory, disk, listed, files_at>>
       ELSE /\ \E linked \in {1..k : k \in 0..NumEpisodes} :
                  ExamineFile("sonarr", NoId, listed + 1, FileId(listed + 1), linked)
            /\ files_at' = files_at + 1
    /\ UNCHANGED <<settings, series_at, library>>
    /\ UNCHANGED <<probe_vars, fn_vars, ui_vars>>

WalkNext ==
    \/ Main
    \/ WalkStart
    \/ WalkSeries
    \/ WalkFiles

\* an unattended run over Sonarr; the program takes its next step as long as
\* it has one
WalkSpec == WalkInit /\ [][WalkNext]_vars /\ WF_vars(WalkNext)

(* ------------------ sonarr_ui_helper.py: probing ----------------------- *)
\* main: _load_probe_cache; the file is absent or unreadable (an empty cache)
\* or holds what earlier sessions stored
ProbeInit ==
    /\ probe_cache_file \in
          [Paths -> {<<>>} \cup {<<OldEntry(sz)>> : sz \in Sizes}
                    \cup {<<EmptyInfo(sz)>> : sz \in Sizes \cup {0}}]
    /\ Cardinality({p \in Paths : probe_cache_file[p] # <<>>}) <= MaxCached
    /\ probe_cache = probe_cache_file
    /\ on_disk \in [Paths -> Sizes \cup {Unreadable}]
    /\ last = <<>>

\* one call of probe_file, as LoadWorker.run makes it for each episode file;
\* tick tells a call from the one before it
ProbeFile ==
    \E file_path \in Paths :
    \E out \in ToolOutcomesFor(on_disk[file_path]) :
       LET r == probe_file(probe_cache, file_path, on_disk[file_path], out) IN
       /\ probe_cache' = r.cache
       /\ last' = <<[path |-> file_path, on_disk |-> on_disk[file_path],
                     result |-> r.result, invoked |-> r.invoked,
                     outcome |-> IF r.invoked = 0 THEN "cached" ELSE out.kind,
                     tick |-> IF last = <<>> THEN 0 ELSE 1 - last[1].tick]>>
       /\ UNCHANGED <<probe_cache_file, on_disk>>
       /\ UNCHANGED <<checker_vars, fn_vars, walk_vars, ui_vars>>

\* the environment: a file is replaced, removed or becomes readable again
ChangeFile ==
    \E file_path \in Paths, size \in Sizes \cup {Unreadable} :
       /\ size # on_disk[file_path]
       /\ on_disk' = [on_disk EXCEPT ![file_path] = size]
       /\ UNCHANGED <<probe_cache, probe_cache_file, last>>
       /\ UNCHANGED <<checker_vars, fn_vars, walk_vars, ui_vars>>

\* MainWindow._clear_cache_and_refresh: the cache is emptied and saved; the
\* calls made before it are forgotten
ClearCache ==
    /\ probe_cache' = [p \in Paths |-> <<>>]
    /\ \E write_ok \in BOOLEAN :
          probe_cache_file' = IF write_ok THEN probe_cache' ELSE probe_cache_file
    /\ last' = <<>>
    /\ UNCHANGED on_disk
    /\ UNCHANGED <<checker_vars, fn_vars, walk_vars, ui_vars>>

\* LoadWorker.run reaches its end without an interruption request and calls
\* _save_probe_cache, whose failure to write is passed over in silence
SaveProbeCache ==
    /\ \E write_ok \in BOOLEAN :
          probe_cache_file' = IF write_ok THEN probe_cache ELSE probe_cache_file
    /\ probe_cache_file' # probe_cache_file
    /\ UNCHANGED <<probe_cache, on_disk, last>>
    /\ UNCHANGED <<checker_vars, fn_vars, walk_vars, ui_vars>>

\* while files are probed, no checker runs
CheckerIdle ==
    /\ ffprobe_path = "ffprobe"
    /\ require_audio = FALSE
    /\ require_subs = FALSE
    /\ interactive = FALSE
    /\ dry_run = FALSE
    /\ good_files_set = {}
    /\ skipped_files_set = {}
    /\ files_cache = <<>>
    /\ user_cache = <<>>
    /\ disk_files_cache = <<>>
    /\ disk_user_cache = <<>>
    /\ pc = "idle"
    /\ listed = 0
    /\ cur = NoFile
    /\ at_start = [good |-> {}, skipped |-> {}, files_cache |-> <<>>,
                   user_cache |-> <<>>, disk_files |-> <<>>, disk_user |-> <<>>]
    /\ calls = <<>>
    /\ printed = {}

ProbeNext ==
    \/ ProbeFile
    \/ ChangeFile
    \/ ClearCache

\* probe_file called again and again while the files change underneath
ProbeStart == ProbeInit /\ CheckerIdle /\ FnIdle /\ WalkIdle /\ UiIdle

ProbeSpec == ProbeStart /\ [][ProbeNext]_vars

WorkerNext ==
    \/ ProbeFile
    \/ SaveProbeCache

\* the runs of LoadWorker over files that stay as they are: probe_file for
\* one file after the other, the cache saved when a run gets to its end
WorkerSpec == ProbeStart /\ [][WorkerNext]_vars

(* ------------- sonarr_ui_helper.py: the window and its loaders --------- *)
\* how many LoadWorker threads a session starts
MaxWorkers == 2

\* LoadWorker(api) after __init__, its signals connected, started: `at` is
\* where run() is ("fetching": in get_series; "check": at the
\* isInterruptionRequested() of the file loop; "probing": ffprobe runs for file
\* number `file`; "saving": past the loops; "finished"), `files` how many
\* files the library listed
LoadWorker ==
    [at |-> "fetching", file |-> 1, files |-> 0, interrupted |-> FALSE,
     connected |-> TRUE]

\* QThread.isRunning
isRunning(w) == workers[w].at # "finished"

\* a worker that looks at no interruption request
never_interrupted(w) == FALSE

\* QThread.isInterruptionRequested
isInterruptionRequested(w) == workers[w].interrupted

\* series_ready.emit(result) in the worker's thread: a connected slot of the
\* window is called through the main thread's event queue
emit(w, result) ==
    IF workers[w].connected
    THEN Append(posted, [from |-> w, result |-> result])
    ELSE posted

\* what ffprobe gives for a file of the library
LibraryOutcome ==
    [kind |-> "ok", format_bit_rate |-> 5000000, streams |->
        <<VideoStream("h264", 1920, 1080, 0, "bt709", "bt709", FALSE),
          AudioStream("aac", 128000, "eng")>>]

\* the window as main leaves it: the cache loaded, the first LoadWorker
\* started by MainWindow.__init__
UiInit ==
    /\ main = "idle"
    /\ worker = 1
    /\ workers = <<LoadWorker>>
    /\ posted = <<>>
    /\ tree = 0
    /\ nodes = {}
    /\ done = <<>>
    /\ on_disk = [p \in Paths |-> 1]
    /\ probe_cache_file \in
          {[p \in Paths |-> <<>>],
           [p \in Paths |-> IF p = 1 THEN <<EmptyInfo(1)>> ELSE <<>>]}
    /\ probe_cache = probe_cache_file
    /\ last = <<>>
    /\ CheckerIdle /\ FnIdle /\ WalkIdle

\* LoadWorker.run: get_series returns or raises
RunGetSeries(w) ==
    /\ workers[w].at = "fetching"
    /\ \/ /\ workers' = [workers EXCEPT ![w].at = "finished"]
          /\ posted' = emit(w, "empty")
       \/ /\ \E n \in {0, NumPaths} :
                workers' = [workers EXCEPT ![w].files = n,
                              ![w].at = IF n = 0 THEN "saving" ELSE "check"]
          /\ UNCHANGED posted
    /\ UNCHANGED <<probe_cache, probe_cache_file>>

\* where run() is once file number `file` is done
AfterFile(w) == IF workers[w].file < workers[w].files THEN "check" ELSE "saving"

\* LoadWorker.run at the top of its file loop: it returns on an interruption
\* request; else probe_file serves the file from the cache or starts ffprobe
RunCheck(w) ==
    /\ workers[w].at = "check"
    /\ IF isInterruptionRequested(w)
       THEN workers' = [workers EXCEPT ![w].at = "finished"]
       ELSE IF CacheHit(probe_cache, workers[w].file, on_disk[workers[w].file])
       THEN workers' = [workers EXCEPT ![w].at = AfterFile(w),
                                       ![w].file = @ + 1]
       ELSE workers' = [workers EXCEPT ![w].at = "probing"]
    /\ UNCHANGED <<probe_cache, probe_cache_file, posted>>

\* ffprobe returns and probe_file stores what it made of the output
RunProbe(w) ==
    /\ workers[w].at = "probing"
    /\ probe_cache' = probe_file(probe_cache, workers[w].file,
                                 on_disk[workers[w].file], LibraryOutcome).cache
    /\ workers' = [workers EXCEPT ![w].at = AfterFile(w), ![w].file = @ + 1]
    /\ UNCHANGED <<probe_cache_file, posted>>

\* LoadWorker.run past its loops: _save_probe_cache, series_ready.emit
RunSave(w) ==
    /\ workers[w].at = "saving"
    /\ \E write_ok \in BOOLEAN :
          probe_cache_file' = IF write_ok THEN probe_cache ELSE probe_cache_file
    /\ posted' = emit(w, IF workers[w].files > 0 THEN "series" ELSE "empty")
    /\ workers' = [workers EXCEPT ![w].at = "finished"]
    /\ UNCHANGED probe_cache

\* one step of one of the threads; they end with the process
Run ==
    /\ main \notin {"none", "closed"}
    /\ \E w \in 1..Len(workers) :
          RunGetSeries(w) \/ RunCheck(w) \/ RunProbe(w) \/ RunSave(w)
    /\ UNCHANGED <<main, worker, tree, nodes, done, on_disk, last>>
    /\ UNCHANGED <<checker_vars, fn_vars, walk_vars>>

\* MainWindow._refresh from `self.model.removeRows` on: a new LoadWorker is
\* made self.worker, connected and started
StartWorker(ws) ==
    /\ tree' = 0
    /\ workers' = Append(ws, LoadWorker)
    /\ worker' = Len(ws) + 1
    /\ main' = "idle"
    /\ UNCHANGED posted

\* MainWindow._refresh up to its wait: a running worker is disconnected and
\* asked to stop
refresh ==
    IF isRunning(worker)
    THEN /\ workers' = [workers EXCEPT ![worker].connected = FALSE,
                                       ![worker].interrupted = TRUE]
         /\ posted' = SelectSeq(posted, LAMBDA e : e.from # worker)
         /\ main' = "waiting"
         /\ UNCHANGED <<worker, tree>>
    ELSE StartWorker(workers)

\* the Refresh button or menu entry, or _add_show after its dialog was
\* accepted: the events queued before it have been handled
Refresh ==
    /\ main = "idle"
    /\ posted = <<>>
    /\ Len(workers) < MaxWorkers
    /\ refresh
    /\ UNCHANGED <<nodes, done, probe_vars>>
    /\ UNCHANGED <<checker_vars, fn_vars, walk_vars>>

\* _clear_cache_and_refresh up to its call of _refresh: the cache is emptied
\* and saved
ClearCacheClicked ==
    /\ main = "idle"
    /\ posted = <<>>
    /\ Len(workers) < MaxWorkers
    /\ probe_cache' = [p \in Paths |-> <<>>]
    /\ \E write_ok \in BOOLEAN :
          probe_cache_file' = IF write_ok THEN probe_cache' ELSE probe_cache_file
    /\ main' = "clearing"
    /\ UNCHANGED <<worker, workers, posted, tree, nodes, done, on_disk, last>>
    /\ UNCHANGED <<checker_vars, fn_vars, walk_vars>>

\* _clear_cache_and_refresh calls _refresh
ClearCacheRefresh ==
    /\ main = "clearing"
    /\ refresh
    /\ UNCHANGED <<nodes, done, probe_vars>>
    /\ UNCHANGED <<checker_vars, fn_vars, walk_vars>>

\* self.worker.wait(5000) of _refresh returns, the thread having finished or
\* the five seconds having passed, and _refresh goes on
RefreshWaitOver ==
    /\ main = "waiting"
    /\ StartWorker(workers)
    /\ UNCHANGED <<nodes, done, probe_vars>>
    /\ UNCHANGED <<checker_vars, fn_vars, walk_vars>>

\* MainWindow.closeEvent up to its wait, and the wait returning
closeEvent ==
    /\ \/ /\ main = "idle"
          /\ posted = <<>>
          /\ IF isRunning(worker)
             THEN /\ workers' = [workers EXCEPT ![worker].interrupted = TRUE]
                  /\ main' = "closing"
             ELSE /\ main' = "closed"
                  /\ UNCHANGED workers
       \/ /\ main = "closing"
          /\ main' = "closed"
          /\ UNCHANGED workers
    /\ UNCHANGED <<worker, posted, tree, nodes, done, probe_vars>>
    /\ UNCHANGED <<checker_vars, fn_vars, walk_vars>>

\* MainWindow._on_data_loaded, called from the event loop for a queued
\* emission: the rows are removed and those of series_list put in
on_data_loaded ==
    /\ main = "idle"
    /\ posted # <<>>
    /\ tree' = IF Head(posted).result = "series" THEN Head(posted).from ELSE 0
    /\ posted' = Tail(posted)
    /\ UNCHANGED <<main, worker, workers, nodes, done, probe_vars>>
    /\ UNCHANGED <<checker_vars, fn_vars, walk_vars>>

UiNext ==
    \/ Run
    \/ Refresh
    \/ ClearCacheClicked
    \/ ClearCacheRefresh
    \/ RefreshWaitOver
    \/ closeEvent
    \/ on_data_loaded

\* a session of the window
UiSpec == UiInit /\ [][UiNext]_vars

(* ------------ sonarr_ui_helper.py: the destructive actions ------------- *)
\* the rows of the tree: each series with one season and one episode file
Nodes == [type : {"series", "season", "episode"}, series : 1..MaxSeries]

\* the rows that go when parent.removeRow(item.row()) removes `node`
Subtree(node) ==
    {n \in Nodes :
        /\ n.series = node.series
        /\ \/ node.type = "series"
           \/ node.type = "season" /\ n.type \in {"season", "episode"}
           \/ n = node}

\* a handler that does not look at the answer
confirmed_anyway(reply) == TRUE

\* `if reply != QMessageBox.Yes: return` after QMessageBox.question
confirmed(reply) == reply = "Yes"

\* what a handler did: the requests and removals it issued, whether it
\* removed the row
Did(ops, removed) == [ops |-> ops, removed |-> removed]

\* MainWindow._ctx_delete_from_disk: failures of delete_episode_file and of
\* the removals are passed over
ctx_delete_from_disk(node, reply, api_ok) ==
    IF ~confirmed(reply)
    THEN Did({}, FALSE)
    ELSE Did({"delete_episode_file",
              IF node.type = "episode" THEN "os.remove" ELSE "rmtree"}, TRUE)

\* MainWindow._ctx_unmonitor_delete: for a series a failing delete_series
\* leaves the row in place
ctx_unmonitor_delete(node, reply, api_ok) ==
    IF ~confirmed(reply)
    THEN Did({}, FALSE)
    ELSE IF node.type = "series"
    THEN Did({"delete_series"}, api_ok)
    ELSE IF node.type = "season"
    THEN Did({"delete_episode_file", "update_episode", "update_series", "rmtree"},
             TRUE)
    ELSE Did({"update_episode", "delete_episode_file", "os.remove"}, TRUE)

\* MainWindow._delete_series
delete_series(node, reply, api_ok) ==
    IF ~confirmed(reply)
    THEN Did({}, FALSE)
    ELSE Did({"delete_series"}, api_ok)

\* one of the three actions is run on a row of the tree and the operator
\* answers its question
ContextAction ==
    /\ main = "idle"
    /\ \E node \in nodes, reply \in {"Yes", "No"}, api_ok \in BOOLEAN,
          handler \in {"_ctx_delete_from_disk", "_ctx_unmonitor_delete",
                       "_delete_series"} :
          /\ handler = "_delete_series" => node.type = "series"
          /\ LET did == CASE handler = "_ctx_delete_from_disk" ->
                                ctx_delete_from_disk(node, reply, api_ok)
                           [] handler = "_ctx_unmonitor_delete" ->
                                ctx_unmonitor_delete(node, reply, api_ok)
                           [] OTHER -> delete_series(node, reply, api_ok)
             IN /\ done' = <<[handler |-> handler, node |-> node, reply |-> reply,
                              ops |-> did.ops, removed |-> did.removed]>>
                /\ nodes' = IF did.removed THEN nodes \ Subtree(node) ELSE nodes
    /\ UNCHANGED <<main, worker, workers, posted, tree, probe_vars>>
    /\ UNCHANGED <<checker_vars, fn_vars, walk_vars>>

\* the tree filled by the first LoadWorker, which has finished
DialogInit ==
    /\ main = "idle"
    /\ worker = 1
    /\ workers = <<[LoadWorker EXCEPT !.at = "finished", !.files = NumPaths,
                                      !.file = NumPaths + 1]>>
    /\ posted = <<>>
    /\ tree = 1
    /\ nodes = Nodes
    /\ done = <<>>
    /\ ProbeIdle /\ CheckerIdle /\ FnIdle /\ WalkIdle

\* context actions run one after the other on a loaded tree
DialogSpec == DialogInit /\ [][ContextAction]_vars

(* ------------------ functions applied on their own --------------------- *)
\* check_file_streams of a checker constructed with a configured code list
CallCheckFileStreams ==
    /\ FnIdle
    /\ \E configured \in CodeLists, o \in ProbeOutcomes :
          /\ fn_in' = [fn |-> "check_file_streams", configured |-> configured, o |-> o]
          /\ fn_out' = check_file_streams(init_english_codes(configured), o)
    /\ UNCHANGED <<checker_vars, probe_vars, walk_vars, ui_vars>>

\* the verdict on a file: `if self.should_redownload(has_eng_audio,
\* has_eng_subs)` on what check_file_streams returned
CallShouldRedownload ==
    /\ FnIdle
    /\ \E ra \in BOOLEAN, rs \in BOOLEAN, o \in ProbeOutcomes :
          LET streams == check_file_streams(english_codes, o) IN
          /\ fn_in' = [fn |-> "should_redownload", require_audio |-> ra,
                       require_subs |-> rs, o |-> o]
          /\ fn_out' = should_redownload(ra, rs, streams[1], streams[2])
    /\ UNCHANGED <<checker_vars, probe_vars, walk_vars, ui_vars>>

\* _add_good_file or _add_skipped_file called twice with the same path, on
\* a set built from its list as __init__ builds it
CallAddFile ==
    /\ FnIdle
    /\ \E which \in {"good", "skipped"}, set \in SUBSET Paths, file_path \in Paths :
          LET list == ListOf(set)
              once == IF which = "good" THEN add_good_file(set, list, file_path)
                      ELSE add_skipped_file(set, list, file_path)
              twice == IF which = "good"
                       THEN add_good_file(once.set, once.list, file_path)
                       ELSE add_skipped_file(once.set, once.list, file_path)
          IN /\ fn_in' = [fn |-> "add_file", which |-> which, set |-> set,
                          list |-> list, file_path |-> file_path]
             /\ fn_out' = <<once, twice>>
    /\ UNCHANGED <<checker_vars, probe_vars, walk_vars, ui_vars>>

\* a release of the tier and size of the third of ReleaseSet
Twin == Release("g4", 2, <<"d">>, 5, 10)

\* `releases = sorted(releases, key=sort_key)` on a list the API returned
CallSorted ==
    /\ FnIdle
    /\ \E releases \in SeqsUpTo(ReleaseSet \cup {Twin}, MaxReleases + 1) :
          /\ fn_in' = [fn |-> "sorted", releases |-> releases]
          /\ fn_out' = SortReleases(releases)
    /\ UNCHANGED <<checker_vars, probe_vars, walk_vars, ui_vars>>

\* the filter step of the selection loop on a ranked list
CallFilterReleases ==
    /\ FnIdle
    /\ \E l \in ApiReleaseLists, search_term \in Terms :
          LET releases == SortReleases(l) IN
          /\ fn_in' = [fn |-> "filter", releases |-> releases, text |-> search_term,
                       quality |-> "", indexer |-> ""]
          /\ fn_out' = [releases |-> releases,
                        offered |-> FilterReleases(releases, search_term)]
    /\ UNCHANGED <<checker_vars, probe_vars, walk_vars, ui_vars>>

\* ManualSearchDialog._apply_filters on the rows of the source model
CallApplyFilters ==
    /\ FnIdle
    /\ \E rows \in SeqsUpTo(RowSet, MaxReleases), text \in Terms,
          quality \in Qualities, indexer \in Indexers :
          /\ fn_in' = [fn |-> "filter", releases |-> rows, text |-> text,
                       quality |-> quality, indexer |-> indexer]
          /\ fn_out' = [releases |-> rows,
                        offered |-> FilterRows(rows, text, quality, indexer)]
    /\ UNCHANGED <<checker_vars, probe_vars, walk_vars, ui_vars>>

\* one answer at "[Your choice]: ", the table of the ranked releases that
\* pass the filter being shown (the prompt is not reached with an empty table)
CallChoice ==
    /\ FnIdle
    /\ \E l \in ApiReleaseLists, search_term \in Terms \cup {<<"c">>},
          in \in ChoiceInputs :
          LET releases == SortReleases(l) IN
          /\ FilterReleases(releases, search_term) # <<>>
          /\ fn_in' = [fn |-> "choice", releases |-> releases,
                       search_term |-> search_term, in |-> in]
          /\ fn_out' = choice_step(releases, search_term, in)
    /\ UNCHANGED <<checker_vars, probe_vars, walk_vars, ui_vars>>

\* a verdict that, once given, switches the audio requirement off
should_redownload_relaxing(self, has_eng_audio, has_eng_subs) ==
    [self |-> [self EXCEPT !.require_audio = FALSE],
     result |-> should_redownload(self.require_audio, self.require_subs,
                                  has_eng_audio, has_eng_subs)]

\* self.should_redownload(has_eng_audio, has_eng_subs) as a method call: the
\* checker as the call leaves it and the value returned
should_redownload_call(self, has_eng_audio, has_eng_subs) ==
    [self |-> self,
     result |-> should_redownload(self.require_audio, self.require_subs,
                                  has_eng_audio, has_eng_subs)]

\* the checker objects should_redownload is called on, with the requests
\* sent so far
Checkers ==
    [require_audio : BOOLEAN, require_subs : BOOLEAN,
     good_files_set : SUBSET Paths, skipped_files_set : SUBSET Paths,
     calls : {<<>>, <<DeleteCall("sonarr", FileId(1))>>}]

\* should_redownload called twice in a row with the same stream flags
CallShouldRedownloadTwice ==
    /\ FnIdle
    /\ \E self \in Checkers, has_eng_audio \in BOOLEAN, has_eng_subs \in BOOLEAN :
          LET first == should_redownload_call(self, has_eng_audio, has_eng_subs)
              second == should_redownload_call(first.self, has_eng_audio, has_eng_subs)
          IN /\ fn_in' = [fn |-> "should_redownload_twice", self |-> self,
                          has_eng_audio |-> has_eng_audio,
                          has_eng_subs |-> has_eng_subs]
             /\ fn_out' = <<first, second>>
    /\ UNCHANGED <<checker_vars, probe_vars, walk_vars, ui_vars>>

\* what the operator and the library give while one file is handled: the
\* stream flags of the probe, the answer at Confirm.ask with what
\* display_releases_and_select then returns (`mark`: it has added the path to
\* the skipped files), and whether the library answers the requests
FileInputs ==
    [streams : ProbeResults,
     select : {[answer |-> "n", selected |-> <<>>, mark |-> "none"],
               [answer |-> "y", selected |-> <<>>, mark |-> "none"],
               [answer |-> "y", selected |-> <<>>, mark |-> "skipped"]}
              \cup {[answer |-> "y", selected |-> <<r>>, mark |-> "none"] :
                        r \in ReleaseSet},
     api_ok : BOOLEAN]

\* the body of the per-file loop of process_sonarr / process_radarr, from
\* its top to its end, as a function of the checker and of what the operator
\* and the library give for the file: the checker it leaves and the requests
\* it sent
loop_body(self, lib, file_path, in) ==
    LET file_id == FileId(file_path)
        resp(body) == IF in.api_ok THEN Answer(body) ELSE Failed
        marked(e) ==
            [self |->
                IF e.mark = "good"
                THEN LET g == add_good_file(self.good_files_set, self.files_cache,
                                            file_path)
                     IN [self EXCEPT !.good_files_set = g.set, !.files_cache = g.list]
                ELSE IF e.mark = "skipped"
                THEN LET k == add_skipped_file(self.skipped_files_set,
                                               self.user_cache, file_path)
                     IN [self EXCEPT !.skipped_files_set = k.set, !.user_cache = k.list]
                ELSE self,
             calls |-> e.calls]
        verdict == should_redownload(self.require_audio, self.require_subs,
                                     in.streams[1], in.streams[2])
    IN
    IF already_verified(file_path, self.good_files_set)
    THEN marked(nothing({}))
    ELSE IF ~verdict
    THEN marked(file_ok)
    ELSE IF previously_skipped(file_path, self.skipped_files_set)
    THEN marked(nothing({}))
    ELSE IF self.interactive
    THEN IF lib = "sonarr"
            /\ get_episodes_for_file(resp(EpisodeTable(file_id, {1}, FALSE)),
                                     file_id) = <<>>
         THEN marked(nothing({"no_episode_ids"}))
         ELSE IF in.select.answer = "n"
         THEN marked(marked_skip)
         ELSE IF in.select.mark = "skipped"
         THEN marked(marked_skip)
         ELSE marked(replace_selected(lib, self.dry_run, file_id,
                                      in.select.selected, resp(<<"queued">>)))
    ELSE marked(reacquire_unattended(lib, self.dry_run, 1, file_id,
                   resp(EpisodeTable(file_id, {1}, make_request(resp(<<>>)).ok))))

\* the loop over two files in the order given
RECURSIVE loop_over(_, _, _, _)
loop_over(self, lib, order, inputs) ==
    IF order = <<>>
    THEN [self |-> self, requests |-> [p \in {} |-> <<>>]]
    ELSE LET one == loop_body(self, lib, Head(order), inputs[Head(order)])
             rest == loop_over(one.self, lib, Tail(order), inputs)
         IN [self |-> rest.self,
             requests |-> (Head(order) :> one.calls) @@ rest.requests]

\* the checkers a run over two files can start from
LoopCheckers ==
    LET caches ==
          UNION {{<<g, k>> : k \in {x \in SUBSET Paths :
                                Cardinality(g) + Cardinality(x) <= MaxCached}} :
                 g \in SUBSET Paths}
    IN {[require_audio |-> TRUE, require_subs |-> TRUE, interactive |-> i,
         dry_run |-> FALSE, good_files_set |-> c[1], files_cache |-> ListOf(c[1]),
         skipped_files_set |-> c[2], user_cache |-> ListOf(c[2])] :
           i \in BOOLEAN, c \in caches}

\* two files under distinct paths handled in the two possible orders, with
\* the same inputs for each file
CallLoopBothOrders ==
    /\ FnIdle
    /\ \E self \in LoopCheckers, lib \in {"sonarr", "radarr"},
          a \in Paths, b \in Paths, in_a \in FileInputs, in_b \in FileInputs :
          /\ a < b
          /\ LET inputs == (a :> in_a) @@ (b :> in_b) IN
             /\ fn_in' = [fn |-> "loop_both_orders", self |-> self, lib |-> lib,
                          a |-> a, b |-> b, inputs |-> inputs]
             /\ fn_out' = [ab |-> loop_over(self, lib, <<a, b>>, inputs),
                           ba |-> loop_over(self, lib, <<b, a>>, inputs)]
    /\ UNCHANGED <<checker_vars, probe_vars, walk_vars, ui_vars>>

\* download_release on a release the selector returned and on what the
\* library answers to the POST: an error, 2xx with an empty body, 2xx with
\* the queued release
CallDownloadRelease ==
    /\ FnIdle
    /\ \E release \in ReleaseSet,
          resp \in {Failed, Answer(<<>>), Answer(<<"queued">>)} :
          /\ fn_in' = [fn |-> "download_release", release |-> release, resp |-> resp]
          /\ fn_out' = download_release(release, resp)
    /\ UNCHANGED <<checker_vars, probe_vars, walk_vars, ui_vars>>

\* video streams as ffprobe lists them; the first has no codec_name
VideoStreams ==
    { VideoStream("", 1280, 720, 0, "bt709", "bt709", FALSE),
      VideoStream("h264", 1920, 1080, 0, "bt709", "bt709", FALSE),
      VideoStream("hevc", 3840, 2160, 9000000, "smpte2084", "bt2020nc", FALSE),
      VideoStream("hevc", 3840, 2160, 9000000, "smpte2084", "bt2020nc", TRUE) }

\* the loop of probe_file over the streams of a file with up to two video
\* streams and an audio stream
CallScanStreams ==
    /\ FnIdle
    /\ \E videos \in SeqsUpTo(VideoStreams, 2),
          tail \in {<<>>, <<AudioStream("aac", 128000, "eng")>>} :
          /\ fn_in' = [fn |-> "scan_streams", streams |-> videos \o tail]
          /\ fn_out' = ScanStreams(EmptyInfo(1), videos \o tail).info
    /\ UNCHANGED <<checker_vars, probe_vars, walk_vars, ui_vars>>

FunctionInit == CheckerIdle /\ ProbeIdle /\ FnIdle /\ WalkIdle /\ UiIdle

FunctionNext ==
    \/ CallCheckFileStreams
    \/ CallShouldRedownload
    \/ CallAddFile
    \/ CallSorted
    \/ CallFilterReleases
    \/ CallApplyFilters
    \/ CallChoice
    \/ CallShouldRedownloadTwice
    \/ CallDownloadRelease
    \/ CallLoopBothOrders
    \/ CallScanStreams

\* the pure functions of the program on inputs drawn from bounded sets, one
\* application in each behaviour
FunctionSpec == FunctionInit /\ [][FunctionNext]_vars

(* ======================= properties of the checker ===================== *)
\* membership in a Python list
InList(x, list) == \E i \in 1..Len(list) : list[i] = x

\* C1: should_redownload(has_audio, has_subs) is true exactly when
\* (require_audio and not has_audio) or (require_subs and not has_subs), for
\* every combination of the flags; with both requirements off it is false
C1_VerdictIsThePolicy ==
    cur.probed =>
       /\ cur.verdict <=> \/ (require_audio /\ ~cur.has_eng_audio)
                          \/ (require_subs /\ ~cur.has_eng_subs)
       /\ (~require_audio /\ ~require_subs) => ~cur.verdict
\* a file flagged for its subtitles alone, audio not being required
C1_FlaggedForSubsOnly ==
    /\ cur.probed /\ cur.verdict
    /\ ~require_audio /\ require_subs
    /\ cur.has_eng_audio /\ ~cur.has_eng_subs

\* C2: with dry_run set, no DELETE, no release POST and no command POST is
\* ever issued, in interactive and unattended mode, whatever is entered and
\* whatever fails
C2_DryRunIssuesNothing == dry_run => calls = <<>>
\* an unattended dry run has met a flagged file it would have deleted
C2_DryRunMetFlaggedFile ==
    /\ dry_run /\ ~interactive
    /\ cur.probed /\ cur.verdict
    /\ "dry_run_would_delete" \in printed

\* C3: interactive, dry_run set, the operator selects release 1..n for a
\* flagged file: no delete, no download, the good and skipped sets unchanged in
\* memory and on disk, and "would download" is reported
C3_DryRunSelectionChangesNothing ==
    (interactive /\ dry_run /\ cur.selected # <<>>) =>
       /\ calls = <<>>
       /\ Snapshot = at_start
       /\ "dry_run_would_download" \in printed
\* a release was selected in an interactive dry run
C3_ReleaseSelectedInDryRun ==
    /\ interactive /\ dry_run
    /\ cur.probed /\ cur.verdict
    /\ cur.selected # <<>>

\* C4: unattended without dry_run, for every flagged file not in the skipped
\* set: a DELETE of the file record, then the search command of its library
\* (EpisodeSearch with the file's episode ids, MoviesSearch with the movie id)
C4_DeleteThenSearch ==
    ( /\ ~interactive /\ ~dry_run
      /\ cur.probed /\ cur.verdict
      /\ cur.path \notin at_start.skipped
      /\ cur.lib = "sonarr" => cur.linked # {} ) =>
       calls = <<DeleteCall(cur.lib, cur.file_id),
                 IF cur.lib = "sonarr"
                 THEN CommandCall("EpisodeSearch", ListOf(cur.linked))
                 ELSE CommandCall("MoviesSearch", <<cur.entity_id>>)>>

\* C5: interactive without dry_run, the operator picks a release for a
\* flagged file: a DELETE of the file record, then a release POST with exactly
\* the guid and indexerId of that release, and no search command
C5_DeleteThenDownload ==
    (interactive /\ ~dry_run /\ cur.selected # <<>>) =>
       calls = <<DeleteCall(cur.lib, cur.file_id),
                 ReleaseCall(cur.selected[1].guid, cur.selected[1].indexerId)>>

\* C6: a file not in the good set whose verdict is false is added to the good
\* set with no DELETE or POST; a file whose verdict is true is not added; so
\* whatever enters the good set had a false verdict
C6_GoodMeansVerdictFalse ==
    /\ (cur.probed /\ ~cur.verdict) =>
          /\ cur.path \in good_files_set
          /\ InList(cur.path, files_cache)
          /\ calls = <<>>
    /\ (cur.probed /\ cur.verdict) => good_files_set = at_start.good
    /\ good_files_set # at_start.good =>
          /\ cur.probed /\ ~cur.verdict
          /\ good_files_set = at_start.good \cup {cur.path}
\* a file new to the good set has just been found to be fine
C6_FileFoundGood ==
    /\ cur.probed /\ ~cur.verdict
    /\ cur.path \notin at_start.good
    /\ cur.path \in good_files_set

\* C7: after delete-then-search or delete-then-download the path is in
\* neither the good set nor the skipped set, and neither cache has changed
C7_ReacquiredIsNotCached ==
    calls # <<>> =>
       /\ cur.path \notin good_files_set \cup skipped_files_set
       /\ ~InList(cur.path, files_cache) /\ ~InList(cur.path, user_cache)
       /\ Snapshot = at_start
\* a file was deleted and searched for
C7_DeletedAndSearched ==
    /\ Len(calls) = 2
    /\ calls[1].method = "DELETE"
    /\ calls[2].endpoint = "command"

\* C12: a failed probe (missing file, non-zero exit, timeout, malformed
\* output) with require_audio or require_subs set gives the verdict
\* re-acquire; so does exit code 1 with require_audio set
C12_FailedProbeIsFlagged ==
    (fn_in.fn = "should_redownload" /\ fn_in.o.kind # "ok") =>
       /\ (fn_in.require_audio \/ fn_in.require_subs) => fn_out = TRUE
       /\ (fn_in.require_audio /\ fn_in.o.kind = "nonzero") => fn_out = TRUE
\* the tool exited non-zero and only audio is required
C12_NonZeroExitFlagged ==
    /\ fn_in.fn = "should_redownload"
    /\ fn_in.o.kind = "nonzero"
    /\ fn_in.require_audio /\ ~fn_in.require_subs
    /\ fn_out = TRUE

\* the list self.english_codes is built from
AcceptedCodes(configured) ==
    IF configured = {} THEN {"eng", "en", "english"} ELSE configured
\* some stream of the type has a language tag, not missing and not empty,
\* that lowercased is a lowercased accepted code
Qualifies(streams, type, configured) ==
    \E i \in 1..Len(streams) :
       /\ streams[i].codec_type = type
       /\ streams[i].language # ""
       /\ \E c \in AcceptedCodes(configured) : Lower(streams[i].language) = Lower(c)

\* C13: check_file_streams reports audio (subs) exactly when some audio
\* (subtitle) stream has a language tag that lowercased is in the accepted
\* list; a missing or empty tag never qualifies, whatever list is configured
C13_QualifyingStreams ==
    (fn_in.fn = "check_file_streams" /\ fn_in.o.kind = "ok") =>
       /\ fn_out[1] <=> Qualifies(fn_in.o.streams, "audio", fn_in.configured)
       /\ fn_out[2] <=> Qualifies(fn_in.o.streams, "subtitle", fn_in.configured)

\* how often x occurs in a list
Count(x, list) == Cardinality({i \in 1..Len(list) : list[i] = x})

\* C14: _add_good_file and _add_skipped_file are idempotent: a path already
\* present changes neither set nor list, and after adding a path twice the
\* list holds it exactly once
C14_AddIsIdempotent ==
    fn_in.fn = "add_file" =>
       /\ fn_out[2] = fn_out[1]
       /\ fn_in.file_path \in fn_out[2].set
       /\ Count(fn_in.file_path, fn_out[2].list) = 1
       /\ fn_in.file_path \in fn_in.set =>
             fn_out[1] = [set |-> fn_in.set, list |-> fn_in.list]
\* a path new to the good set was added twice
C14_NewPathAddedTwice ==
    /\ fn_in.fn = "add_file" /\ fn_in.which = "good"
    /\ fn_in.file_path \notin fn_in.set
    /\ fn_in.set # {}
    /\ Count(fn_in.file_path, fn_out[2].list) = 1

(* ======================= properties of probe_file ====================== *)
\* the step is a call of probe_file
ProbeCall == last' # last /\ last' # <<>>

\* C8: a second probe_file call on a path whose size is what the previous call
\* on that path saw returns the previous result and does not run the tool,
\* whatever the previous call's outcome
C8_SecondCallIsServed ==
    [][ ( /\ ProbeCall
          /\ last # <<>>
          /\ last'[1].path = last[1].path
          /\ last'[1].on_disk = last[1].on_disk ) =>
           /\ last'[1].result = last[1].result
           /\ last'[1].invoked = 0 ]_vars

\* C9: the size differs from the entry's, or the entry lacks a required
\* field: the entry is disregarded, the tool runs exactly once, and afterwards
\* the path's entry carries the current size
C9_StaleEntryIsReplaced ==
    [][ ( /\ ProbeCall
          /\ probe_cache[last'[1].path] # <<>>
          /\ \/ probe_cache[last'[1].path][1].size_bytes # last'[1].result.size_bytes
             \/ ~probe_cache[last'[1].path][1].has_video_resolution ) =>
           /\ last'[1].result # probe_cache[last'[1].path][1]
           /\ last'[1].invoked = 1
           /\ probe_cache'[last'[1].path] # <<>>
           /\ probe_cache'[last'[1].path][1].size_bytes = last'[1].result.size_bytes ]_vars

\* C10: every probe_file call that runs the tool stores its result in the
\* cache under the path, also when the tool exits non-zero, times out or
\* prints malformed output
C10_EveryFreshResultIsStored ==
    [][ (ProbeCall /\ last'[1].invoked = 1) =>
           probe_cache'[last'[1].path] = <<last'[1].result>> ]_vars

\* the codec, resolution, bitrate, HDR and language fields are all empty
NoFields(info) ==
    /\ info.video_codec = "" /\ info.video_resolution = <<>>
    /\ info.video_bitrate = <<>> /\ info.audio_codec = ""
    /\ info.audio_bitrate = <<>> /\ info.hdr = ""
    /\ info.audio_langs = <<>> /\ info.sub_langs = <<>>

\* C11 (probe_file): on a missing file, a non-zero exit, a timeout or
\* malformed output the record returned has no codec, resolution, bitrate,
\* HDR or language
C11_FailedProbeIsEmpty ==
    [][ ( /\ ProbeCall
          /\ \/ last'[1].on_disk = Unreadable
             \/ last'[1].outcome \in {"nonzero", "timeout", "malformed"} ) =>
           NoFields(last'[1].result) ]_vars

(* ------------------------- the caches of a run ------------------------- *)
Members(list) == {list[i] : i \in 1..Len(list)}

\* C15: no operation removes a path from the good set or the skipped set: the
\* two sets, the lists kept in memory and the lists the cache files hold only
\* grow
C15_CachesOnlyGrow ==
    [][/\ good_files_set \subseteq good_files_set'
       /\ skipped_files_set \subseteq skipped_files_set'
       /\ Members(files_cache) \subseteq Members(files_cache')
       /\ Members(user_cache) \subseteq Members(user_cache')
       /\ Members(disk_files_cache) \subseteq Members(disk_files_cache')
       /\ Members(disk_user_cache) \subseteq Members(disk_user_cache')]_vars

\* C16: every addition to the good or skipped set is followed by save_caches
\* before the next file is examined: when neither write is warned about, the
\* step that adds a path leaves the two files equal to the lists in memory,
\* with every path of the two sets in them
C16_AdditionIsSaved ==
    [][(/\ \/ good_files_set' # good_files_set
           \/ skipped_files_set' # skipped_files_set
        /\ printed' \cap Warnings(FALSE, FALSE) = {})
       => /\ disk_files_cache' = files_cache'
          /\ disk_user_cache' = user_cache'
          /\ good_files_set' \subseteq Members(disk_files_cache')
          /\ skipped_files_set' \subseteq Members(disk_user_cache')]_vars

\* C16: a file was found good, or was skipped by the operator, its path is new
\* in the set and in the file, and the next file is about to be examined
C16_AddedAndSaved ==
    /\ pc \in {"sonarr_files", "radarr_movies"}
    /\ cur.path # NoPath
    /\ printed \cap Warnings(FALSE, FALSE) = {}
    /\ \/ /\ cur.path \in good_files_set \ at_start.good
          /\ InList(cur.path, disk_files_cache)
          /\ ~InList(cur.path, at_start.disk_files)
       \/ /\ cur.path \in skipped_files_set \ at_start.skipped
          /\ InList(cur.path, disk_user_cache)
          /\ ~InList(cur.path, at_start.disk_user)

(* --------------------- ranking and filtering releases ------------------ *)
Injections(n) ==
    {f \in [1..n -> 1..n] : \A i, j \in 1..n : i # j => f[i] # f[j]}

\* C17: the ranked list is a permutation of the input; a release stands
\* before another only if its tier is higher, or the tiers are equal and its
\* size is not smaller; releases of equal tier and size keep the order in
\* which they were received; tiers and sizes (5,10), (5,20), (8,1) are
\* ranked (8,1), (5,20), (5,10)
C17_RankedByTierThenSize ==
    fn_in.fn = "sorted" =>
       LET received == fn_in.releases
           ranked == fn_out
           n == Len(received)
       IN /\ Len(ranked) = n
          /\ \E from \in Injections(n) :
                /\ \A i \in 1..n : ranked[i] = received[from[i]]
                /\ \A i, j \in 1..n :
                      i < j =>
                        \/ ranked[i].quality_id > ranked[j].quality_id
                        \/ /\ ranked[i].quality_id = ranked[j].quality_id
                           /\ ranked[i].size > ranked[j].size
                        \/ /\ ranked[i].quality_id = ranked[j].quality_id
                           /\ ranked[i].size = ranked[j].size
                           /\ from[i] < from[j]
          /\ (/\ n = 3
              /\ \A i \in 1..3 : <<received[i].quality_id, received[i].size>>
                                    = <<<<5, 10>>, <<5, 20>>, <<8, 1>>>>[i])
             => ranked = <<received[3], received[2], received[1]>>

\* C17: the list of the scenario was ranked, its twin of tier 5 and size 10
\* standing for the first release
C17_ScenarioRanked ==
    /\ fn_in.fn = "sorted"
    /\ fn_in.releases = <<Twin, Release("", 1, <<"a", "B">>, 5, 20),
                          Release("g1", 0, <<"A", "b">>, 8, 1)>>
    /\ fn_out = <<Release("g1", 0, <<"A", "b">>, 8, 1),
                  Release("", 1, <<"a", "B">>, 5, 20), Twin>>

\* the title holds the text at some place, letter case apart
HoldsText(title, text) ==
    \E at \in 0..(Len(title) - Len(text)) :
       \A k \in 1..Len(text) : Lower(title[at + k]) = Lower(text[k])

\* every active filter accepts the release
Accepted(r, f) ==
    /\ f.text # <<>> => HoldsText(r.title, f.text)
    /\ f.quality # "" => r.quality = f.quality
    /\ f.indexer # "" => r.indexer = f.indexer

Shown(releases, search_term) ==
    SelectSeq(releases, LAMBDA r : search_term # <<>> => HoldsText(r.title, search_term))

\* the answer is a number, or text that is none
Numeric(in) == in.kind = "int"
Entered(in) == in.kind # "interrupt"

\* what the loop does on the inputs 0, -1 and k
Selection(in, out) ==
    LET shown == Shown(fn_in.releases, fn_in.search_term) IN
    /\ (Numeric(in) /\ in.n = 0) =>
          out.next = "return" /\ out.selected = <<>> /\ out.mark = "skipped"
    /\ (Numeric(in) /\ in.n = -1) =>
          out.next = "return" /\ out.selected = <<>> /\ out.mark = "none"
    /\ (Numeric(in) /\ 1 <= in.n /\ in.n <= Len(shown)) =>
          out.next = "return" /\ out.selected = <<shown[in.n]>> /\ out.mark = "none"

\* an input that is none of 0, -1 and k
Other(in) ==
    /\ Entered(in)
    /\ ~(Numeric(in) /\ in.n \in (-1)..Len(Shown(fn_in.releases, fn_in.search_term)))

\* nothing is returned and the prompt comes again under the same filter
RepromptedAsBefore(out) ==
    /\ out.next = "continue"
    /\ out.search_term = fn_in.search_term
    /\ out.selected = <<>>
    /\ out.mark = "none"

\* C19: input 0 records the path as skipped and returns no release, -1
\* returns no release, k from 1 to n returns the k-th release of the table as
\* filtered; any other input than the filter commands s and c returns nothing
\* and prompts again with the filter as it was
C19_SelectionLoopStep ==
    fn_in.fn = "choice" =>
       /\ Selection(fn_in.in, fn_out)
       /\ (Other(fn_in.in) /\ fn_in.in.kind \notin {"s", "c"})
             => RepromptedAsBefore(fn_out)

\* C19: with a filter set, 1 was entered and the first release of the table,
\* which is not the first of the whole list, is returned
C19_FirstOfFiltered ==
    /\ fn_in.fn = "choice"
    /\ fn_in.in = [kind |-> "int", n |-> 1]
    /\ fn_in.search_term # <<>>
    /\ fn_out.selected # <<>>
    /\ fn_out.selected[1] # fn_in.releases[1]

\* C19 as stated: every input that is none of 0, -1 and k returns nothing and
\* prompts again with the same filter state
C19_AnyOtherInputReprompts ==
    fn_in.fn = "choice" =>
       /\ Selection(fn_in.in, fn_out)
       /\ Other(fn_in.in) => RepromptedAsBefore(fn_out)

\* display_releases_and_select is running: it ranks the releases on Yes at
\* "View alternative releases?" and then waits at one of its three prompts
InSelection ==
    \/ pc = "confirm" /\ pc' = "choice"
    \/ pc \in {"choice", "search_term", "press_enter"}

\* C20: within display_releases_and_select the good and skipped sets, their
\* lists and the two cache files change only when the operator enters 0:
\* the function then returns no release and the path of the file is the one
\* addition; ranking, the filter commands, an invalid input, -1 and the
\* choice of a release leave them as they are
C20_OnlySkipTouchesCaches ==
    [][(InSelection /\ <<memory, disk>>' # <<memory, disk>>)
       => /\ pc = "choice"
          /\ pc' = Ret
          /\ "marked_skip" \in printed'
          /\ cur'.selected = <<>>
          /\ calls' = calls
          /\ skipped_files_set' = skipped_files_set \cup {cur.path}
          /\ good_files_set' = good_files_set
          /\ files_cache' = files_cache]_vars

\* C20: the table was shown and 0 entered: the path is new in the skipped set
\* and in its file, the good set is as it was when the file was met
C20_SkippedFromTable ==
    /\ "table" \in printed
    /\ "marked_skip" \in printed
    /\ cur.path \in skipped_files_set \ at_start.skipped
    /\ InList(cur.path, disk_user_cache)
    /\ good_files_set = at_start.good

(* ------------------------ cancelling, modes, caches -------------------- *)
\* the operator is being asked something about the file in hand
AtPrompt == pc \in {"confirm", "choice", "search_term", "press_enter"}

\* a step in which the operator cancels at a prompt: "Skipped" is printed by
\* the selection loop, or the run ends
Cancelled ==
    /\ AtPrompt
    /\ \/ "skipped" \in printed' \ printed
       \/ pc' = "aborted"

\* C21: a keyboard interrupt at any prompt shown for a flagged file (the
\* confirmation, the choice, the search term, the press-Enter prompt) acts as
\* keeping the file: no release is returned, no cache is modified, no request
\* that changes the library is issued, and the run goes on with the next file
C21_CancelKeepsFileAndGoesOn ==
    [][Cancelled
       => /\ cur'.selected = <<>>
          /\ <<memory, disk>>' = <<memory, disk>>
          /\ calls' = calls
          /\ pc' = Ret]_vars

\* C22: in unattended mode no step of a run adds a path to the skipped set;
\* the set, its list and its file stay as they are
C22_UnattendedNeverSkips ==
    [][~interactive
       => /\ skipped_files_set' = skipped_files_set
          /\ user_cache' = user_cache
          /\ disk_user_cache' = disk_user_cache]_vars

\* C22: an unattended run has met a flagged file, sent the requests for it
\* and left the skipped set without its path
C22_UnattendedReacquired ==
    /\ ~interactive
    /\ cur.probed /\ cur.verdict
    /\ calls # <<>>
    /\ cur.path \notin skipped_files_set

\* C23: a file whose path is in the good set when the run reaches it is not
\* probed, brings no prompt and no request, and leaves sets, lists and files
\* as they were, whatever the mode and the policy flags
C23_GoodFileIsPassedOver ==
    (cur.path # NoPath /\ cur.path \in at_start.good)
    => /\ ~cur.probed
       /\ ~AtPrompt
       /\ calls = <<>>
       /\ <<good_files_set, skipped_files_set, files_cache, user_cache,
            disk_files_cache, disk_user_cache>>
          = <<at_start.good, at_start.skipped, at_start.files_cache,
              at_start.user_cache, at_start.disk_files, at_start.disk_user>>

\* C23: a run that requires English audio and would delete has reached a
\* file of the good set
C23_GoodFileReached ==
    /\ cur.path # NoPath
    /\ cur.path \in at_start.good
    /\ require_audio /\ ~dry_run

\* C24: for a file whose path is in the skipped set when the run reaches it
\* no DELETE, no search command and no release download is issued, and the
\* operator is not asked about it, in either mode
C24_SkippedFileIsKept ==
    (cur.path # NoPath /\ cur.path \in at_start.skipped)
    => /\ calls = <<>>
       /\ ~AtPrompt
       /\ cur.selected = <<>>

\* C24: a file of the skipped set was probed and flagged again, in a run that
\* would delete
C24_SkippedFileFlaggedAgain ==
    /\ cur.path # NoPath
    /\ cur.path \in at_start.skipped
    /\ cur.probed /\ cur.verdict
    /\ ~dry_run

\* C28: in dry-run mode no step changes the good set, the skipped set, their
\* lists or the two cache files, whatever the operator answers
C28_DryRunKeepsCaches ==
    [][dry_run => <<memory, disk>>' = <<memory, disk>>]_vars

\* C30: no path is in the good set and in the skipped set at once
C30_GoodAndSkippedDisjoint == good_files_set \cap skipped_files_set = {}

\* the run has sent no request and met no file
NothingRequested ==
    /\ pc \in {"main", "exit"}
    /\ calls = <<>>
    /\ listed = 0
    /\ cur = NoFile

\* C25: the inspection tool is looked for before any file is processed, and
\* a run without it ends without a request to either library
C25_NoToolNoRequest == ffprobe_path = "" => NothingRequested

\* C25: the tool was not found and main has exited
C25_ExitedWithoutTool == ffprobe_path = "" /\ pc = "exit"

C29_StoredEntryIsOnDisk ==
    [][ProbeCall
       => \A p \in Paths :
             probe_cache[p] # <<>> => probe_cache_file[p] = probe_cache[p]]_vars

HdrClass(st) ==
    IF st.dovi THEN "DV"
    ELSE IF st.color_transfer \in {"smpte2084", "arib-std-b67"}
            \/ st.color_space \in {"bt2020nc", "bt2020c"}
    THEN "HDR"
    ELSE "SDR"

\* C34: codec, resolution and HDR tag of a probe result are those of the
\* first video stream in stream order, tagged DV, else HDR, else SDR; no later
\* video stream changes them, whatever the first stream's fields contain
C34_FirstVideoStreamOnly ==
    (fn_in.fn = "scan_streams"
     /\ Len(fn_in.streams) > 0 /\ fn_in.streams[1].codec_type = "video")
    => LET first == fn_in.streams[1] IN
       /\ fn_out.video_codec = Upper(first.codec_name)
       /\ fn_out.video_resolution = <<first.width, first.height>>
       /\ fn_out.hdr = HdrClass(first)

\* C36: in interactive mode a DELETE of the file record is followed by a
\* release POST for the chosen release, whatever release was chosen, also
\* one without guid or indexerId
C36_DeleteOnlyWithDownload ==
    interactive =>
       \A i \in 1..Len(calls) :
          calls[i].method = "DELETE"
          => /\ cur.selected # <<>>
             /\ \E j \in (i + 1)..Len(calls) :
                   /\ calls[j].method = "POST"
                   /\ calls[j].endpoint = "release"

\* the library took the POST: any 2xx answer
Accepted2xx(resp) == resp.ok

\* C37: download_release returns True exactly when the release POST was
\* accepted by the library (2xx, with or without a body), and False exactly
\* when the release data is invalid or the request failed
C37_TrueIffAccepted ==
    fn_in.fn = "download_release" =>
       LET valid == fn_in.release.guid # "" /\ fn_in.release.indexerId # None IN
       fn_out.result <=> (valid /\ Accepted2xx(fn_in.resp))

(* --------------------- cache files that fail ---------------------------- *)
\* C33: a cache file that cannot be read or parsed gives an empty cache, a
\* cache file that cannot be written gives a warning only: the run goes on
\* with the next file, and the sets in memory hold the path just added and
\* every path they held before
C33_CacheFailuresAreSurvived ==
    /\ pc = "main" =>
          /\ files_cache \in {<<>>, disk_files_cache}
          /\ user_cache \in {<<>>, disk_user_cache}
    /\ good_files_set = Members(files_cache)
    /\ skipped_files_set = Members(user_cache)
    /\ at_start.good \subseteq good_files_set
    /\ at_start.skipped \subseteq skipped_files_set
    /\ printed \cap Warnings(FALSE, FALSE) # {} =>
          /\ pc \in {"sonarr_files", "radarr_movies"}
          /\ cur.path \in good_files_set \cup skipped_files_set

\* C33: the good-files cache could not be read at the start, and the write
\* after the current file was found good failed: the file still holds what
\* it held, the set in memory holds the new path
C33_LoadAndWriteFailed ==
    /\ "files_cache_not_saved" \in printed
    /\ pc \in {"sonarr_files", "radarr_movies"}
    /\ cur.path \in good_files_set \ at_start.good
    /\ disk_files_cache # <<>>
    /\ Members(disk_files_cache) \cap good_files_set = {}

(* ------------------------- files are independent ------------------------ *)
\* C35: two files under distinct paths, handled in either order with the
\* same probe results, operator answers and API outcomes per file, leave the
\* same good set and the same skipped set, and for each file the same set of
\* delete, search and download requests
C35_OrderDoesNotMatter ==
    fn_in.fn = "loop_both_orders" =>
       /\ fn_out.ab.self.good_files_set = fn_out.ba.self.good_files_set
       /\ fn_out.ab.self.skipped_files_set = fn_out.ba.self.skipped_files_set
       /\ \A p \in {fn_in.a, fn_in.b} :
             Members(fn_out.ab.requests[p]) = Members(fn_out.ba.requests[p])

\* C35: of the two files one was found good and the other was replaced by a
\* chosen release, neither path being in a set before
C35_OneGoodOneReplaced ==
    /\ fn_in.fn = "loop_both_orders"
    /\ fn_in.self.good_files_set = {}
    /\ fn_out.ab.self.good_files_set = {fn_in.a}
    /\ Len(fn_out.ab.requests[fn_in.b]) = 2
    /\ fn_out.ab.self.files_cache = fn_out.ba.self.files_cache

(* ----------------------- the window's loaders --------------------------- *)
\* C31: at most one bulk worker is probing files and writing the probe cache
\* at any time: whatever Refresh, Clear Cache & Refresh, Add Show and closing
\* do with a running worker, at most one LoadWorker is running and at most
\* one ffprobe process is outstanding
C31_OneWorkerAtATime ==
    /\ Cardinality({w \in 1..Len(workers) : isRunning(w)}) <= 1
    /\ Cardinality({w \in 1..Len(workers) : workers[w].at = "probing"}) <= 1

\* C32: a worker asked to stop notices it only at the top of its file loop:
\* a call in flight (get_series, ffprobe) runs to its end, and at the top of
\* the loop the worker returns with no write of the cache file and no
\* emission, the cache file being left as it was
C32_StopsBetweenFilesOnly ==
    [][\A w \in 1..Len(workers) :
          (workers[w].interrupted /\ workers'[w].at # workers[w].at) =>
             CASE workers[w].at = "check" ->
                    /\ workers'[w].at = "finished"
                    /\ probe_cache_file' = probe_cache_file
                    /\ probe_cache' = probe_cache
                    /\ posted' = posted
               [] workers[w].at = "probing" ->
                    /\ workers'[w].at \in {"check", "saving"}
                    /\ workers'[w].file = workers[w].file + 1
                    /\ probe_cache'[workers[w].file] # <<>>
               [] workers[w].at = "fetching" ->
                    workers'[w].at \in {"check", "saving", "finished"}
               [] OTHER -> TRUE]_vars

\* C32: a worker asked to stop while ffprobe ran for its first file has
\* returned before its second file; the cache holds the first file's entry,
\* the cache file does not
C32_StoppedBeforeSecondFile ==
    \E w \in 1..Len(workers) :
       /\ workers[w].interrupted
       /\ workers[w].at = "finished"
       /\ workers[w].files = NumPaths
       /\ workers[w].file = 2
       /\ probe_cache[1] # <<>>
       /\ probe_cache_file[1] = <<>>

\* C39: once _refresh has started a new LoadWorker, the tree is filled only
\* by that worker's series_ready emission: the rows in the model are those
\* of self.worker, or there are none
C39_OnlyTheNewWorkerFillsTheTree ==
    tree \in {0, worker}

(* ------------------------ destructive actions --------------------------- *)
\* C38: Delete from Disk, Unmonitor & Delete and Delete Series issue no API
\* delete, no unmonitor update, no filesystem removal and no removal of a
\* tree row unless the operator answered Yes to the question
C38_NothingWithoutYes ==
    [][(done' # <<>> /\ done'[1].reply # "Yes") =>
          /\ done'[1].ops = {}
          /\ ~done'[1].removed
          /\ nodes' = nodes]_vars

\* C38: the operator answered No to Unmonitor & Delete on a season whose
\* series had lost its episode row to an action answered Yes before; the
\* season row is still there
C38_AnsweredNo ==
    /\ done # <<>>
    /\ done[1].reply = "No"
    /\ done[1].handler = "_ctx_unmonitor_delete"
    /\ done[1].node \in nodes
    /\ done[1].node.type = "season"
    /\ [type |-> "episode", series |-> done[1].node.series] \notin nodes

====
